---- MODULE Spec2Model ----
(***************************************************************************)
(* Model of the BLE service of the e-paper photo frame companion app       *)
(* (src/src/services/bleService.ts): the promise-chain operation queue,    *)
(* the command/response exchange with its 10 s timer, and the chunked      *)
(* upload with retry and cleanup.                                          *)
(*                                                                         *)
(* One action is one run of JavaScript between two suspension points (a    *)
(* task together with the microtasks it triggers).  The handlers are       *)
(* written as operators over a record s holding the whole program state,   *)
(* so that a handler that calls another one composes them.                 *)
(***************************************************************************)
EXTENDS Integers, Sequences, FiniteSets, TLC

\* ---------------------------------------------------------------- bounds
MaxOps == 2
MaxUploads == 1
MaxNotifications == 2
MaxFrameOps == 1

\* ------------------------------------------------------ program constants
CMD_GET_INFO == 1
CMD_GET_IMAGES == 2
CMD_NEXT_IMAGE == 4
CMD_START_UPLOAD == 16
CMD_FINISH_UPLOAD == 18
CMD_CANCEL_UPLOAD == 19
CMD_GET_SETTINGS == 32
RESP_OK == 0
RESP_ERROR == 1
RESP_INFO == 2
RESP_IMAGE_LIST == 3
RESP_SETTINGS == 4
RESP_PROGRESS == 5
CHUNK_SIZE == 256
MAX_RETRIES == 3
BACKOFF_MS == 300

\* The response codes the modelled device answers with.
DeviceCodes == {RESP_OK, RESP_ERROR}

\* Payload lengths offered to uploadImage: empty, and two chunks of which
\* the last is shorter than CHUNK_SIZE.
DataLens == {0, CHUNK_SIZE + 44}

Settled == {"resolved", "rejected"}

\* A notification of the response characteristic: its length, its first byte,
\* the 24-bit offset of a PROGRESS frame, and the command the device sent it
\* in answer to (0 when unsolicited).
Frame(code, replyTo) ==
  [byteLength |-> 1, code |-> code, offset |-> 0, replyTo |-> replyTo]

ProgressFrame(offset) ==
  [byteLength |-> 4, code |-> RESP_PROGRESS, offset |-> offset, replyTo |-> 0]

EmptyFrame == [byteLength |-> 0, code |-> -1, offset |-> 0, replyTo |-> 0]

NoFrame == [byteLength |-> -1, code |-> -1, offset |-> 0, replyTo |-> 0]

VARIABLES
  commandChar,            \* this.commandChar   # null
  responseChar,           \* this.responseChar  # null
  imageDataChar,          \* this.imageDataChar # null
  responseResolver,       \* 0 = null, else the command whose promise it resolves
  progressCallback,       \* 0 = null, else the upload that registered it
  operationQueue,         \* 0 = the initial resolved promise, else the op at the tail
  isOperationInProgress,
  ops,                    \* the calls made through queueOperation, in submission order
  cmds,                   \* the sendCommandInternal invocations, in order
  timers,                 \* armed 10 s timers (command ids), in the order they fire
  devicePending,          \* commands the device received and has not answered
  sent,                   \* every send attempt (command or chunk), in order
  inbound,                \* every notification handled: byteLength, resolver found
  reports,                \* every invocation of an upload's progress callback
  uploadError,            \* DeviceScreen: the `uploadError` state
  serverConnected,        \* this.server.connected: the GATT link is up
  screen,                 \* App: the `screen` state
  listenerScreen,         \* App: the `screen` the subscribed connection callback closed over
  store,                  \* deviceStore.state (connection and device-derived part)
  flow,                   \* App: the handleOpenDevice / handleScan call in flight
  pixel,                  \* findClosestColor: the arguments of the call
  closest,                \* findClosestColor: the entry returned
  job,                    \* processImage: colorMode and orientation
  epdX,                   \* processImage: the packing loop's column
  epdY,                   \* processImage: the packing loop's row
  binaryData,             \* processImage: the output buffer
  data,                   \* getSettings: the object JSON.parse returned
  deviceSettings,         \* getSettings: the DeviceSettings returned
  pairedDevices,          \* deviceStore: state.pairedDevices
  storage,                \* localStorage item 'paired-devices'
  notified,               \* deviceStore: runs of notify()
  now,                    \* Date.now()
  call,                   \* deviceStore: the method called last
  listPayload,            \* getImages: the bytes of the response after the code
  imageNames,             \* getImages: the array returned
  listed,                 \* getImages: whether it has returned
  ditherX,                \* processImage: the dithering loop's column
  ditherY,                \* processImage: the dithering loop's row
  err,                    \* processImage: errR, errG, errB
  diffused                \* processImage: the additions made to pixels

\* The image codec's part of the state.
codec == <<pixel, closest, job, epdX, epdY, binaryData>>

\* The settings parser's part of the state.
parser == <<data, deviceSettings>>

\* The paired-device list's part of the state.
paired == <<pairedDevices, storage, notified, now, call>>

\* The image-list parser's part of the state.
lister == <<listPayload, imageNames, listed>>

\* The dithering loop's part of the state.
dither == <<ditherX, ditherY, err, diffused>>

\* The parts of the state only their own specifications change.
aside == <<paired, lister, dither>>

\* What the service's handlers leave alone.
others == <<serverConnected, screen, listenerScreen, store, flow, codec, parser,
            aside>>

vars == <<commandChar, responseChar, imageDataChar, responseResolver,
          progressCallback, operationQueue, isOperationInProgress, ops, cmds,
          timers, devicePending, sent, inbound, reports, uploadError, others>>

\* The program state as one record, and its installation as the next state.
S ==
  [commandChar |-> commandChar, responseChar |-> responseChar,
   imageDataChar |-> imageDataChar, responseResolver |-> responseResolver,
   progressCallback |-> progressCallback, operationQueue |-> operationQueue,
   isOperationInProgress |-> isOperationInProgress, ops |-> ops, cmds |-> cmds,
   timers |-> timers, devicePending |-> devicePending, sent |-> sent,
   inbound |-> inbound, reports |-> reports, uploadError |-> uploadError]

Apply(t) ==
  /\ commandChar' = t.commandChar
  /\ responseChar' = t.responseChar
  /\ imageDataChar' = t.imageDataChar
  /\ responseResolver' = t.responseResolver
  /\ progressCallback' = t.progressCallback
  /\ operationQueue' = t.operationQueue
  /\ isOperationInProgress' = t.isOperationInProgress
  /\ ops' = t.ops
  /\ cmds' = t.cmds
  /\ timers' = t.timers
  /\ devicePending' = t.devicePending
  /\ sent' = t.sent
  /\ inbound' = t.inbound
  /\ reports' = t.reports
  /\ uploadError' = t.uploadError
  /\ UNCHANGED others

\* A call handed to queueOperation.  kind: "command" (sendCommand, here
\* nextImage), "upload" (uploadImage), "cancel" (cancelUpload), or one of the
\* Queries.  behind remembers whether the call was made while the chain's tail
\* was unsettled.
NewOp(kind, len, behind) ==
  [kind |-> kind, len |-> len, prev |-> 0, behind |-> behind,
   status |-> "queued", result |-> "none", pc |-> "queued", step |-> 0,
   cur |-> 0, offset |-> 0, retries |-> 0, waitTime |-> 0, error |-> "none"]

\* The calls that expect a response code of their own.
Queries == {"getInfo", "getImages", "getSettings"}

\* The command a one-command call sends (lines 279, 291, 310, 334).
CommandOf(kind) ==
  CASE kind = "getInfo" -> CMD_GET_INFO
    [] kind = "getImages" -> CMD_GET_IMAGES
    [] kind = "getSettings" -> CMD_GET_SETTINGS
    [] kind = "cancel" -> CMD_CANCEL_UPLOAD
    [] OTHER -> CMD_NEXT_IMAGE

\* Queries that all accept the INFO code.
Expected_InfoForAll(kind) == RESP_INFO

\* The response code a query accepts (lines 281, 293, 336).
Expected(kind) ==
  CASE kind = "getInfo" -> RESP_INFO
    [] kind = "getImages" -> RESP_IMAGE_LIST
    [] OTHER -> RESP_SETTINGS

\* DeviceScreen's `uploadError` state: null, or the error of the failed upload
\* and `lastProgress`.
NoUploadError == [error |-> "null", progress |-> 0]

UploadErrorOf(error, progress) == [error |-> error, progress |-> progress]

\* The values of sent / total that are not finite, 0 / 0 and n / 0.
NaN == -2
PlusInfinity == -1

\* Math.round(num / den) for num >= 0 and den >= 0: the nearest integer,
\* halves upwards; Infinity for a positive number over zero and NaN for 0 / 0.
MathRound(num, den) ==
  IF den = 0 THEN (IF num = 0 THEN NaN ELSE PlusInfinity)
  ELSE (2 * num + den) \div (2 * den)

\* trackProgress of handleUpload (DeviceScreen.tsx lines 90-93), the progress
\* callback of upload i: it computes lastProgress and forwards the report.
trackProgress(s, i, sentBytes, total) ==
  [s EXCEPT !.reports = Append(@, [op |-> i, sent |-> sentBytes, total |-> total,
                                   lastProgress |-> MathRound(100 * sentBytes, total)])]

\* handleUpload's local lastProgress: 0, or what the last report set.
lastProgress(s, i) ==
  LET R == {k \in 1..Len(s.reports) : s.reports[k].op = i} IN
  IF R = {} THEN 0
  ELSE s.reports[CHOOSE k \in R : \A m \in R : m <= k].lastProgress

\* An entry of sent.  st: "pending", "ok", "failed" (writeValue rejected) or
\* "threw" (the characteristic was null, nothing reached the transport).
CommandEntry(i, code, c, st) ==
  [op |-> i, chan |-> "command", code |-> code, cmd |-> c, offset |-> 0,
   len |-> 0, st |-> st]

ChunkEntry(i, offset, len, st) ==
  [op |-> i, chan |-> "data", code |-> 0, cmd |-> 0, offset |-> offset,
   len |-> len, st |-> st]

\* The indices in w of the attempts made by op i, and the last of them.
EntriesOf(w, i) == {k \in 1..Len(w) : w[k].op = i}

LastEntry(w, i) ==
  CHOOSE k \in EntriesOf(w, i) : \A j \in EntriesOf(w, i) : j <= k

----------------------------------------------------------------------------
\* queueOperation, lines 215-230.

\* A finally clause that runs only when the operation succeeded.
QueueSettle_BusyAfterFailure(s, i, status, result) ==
  [s EXCEPT !.isOperationInProgress = (status = "rejected"),
            !.ops[i].status = status,
            !.ops[i].result = result,
            !.ops[i].pc = "done"]

\* The async callback of queueOperation settles: the finally clause clears
\* the busy flag and the promise `result` takes the operation's outcome.
QueueSettle(s, i, status, result) ==
  [s EXCEPT !.isOperationInProgress = FALSE,
            !.ops[i].status = status,
            !.ops[i].result = result,
            !.ops[i].pc = "done"]

\* isBusy(), lines 108-110.
isBusy(s) == s.isOperationInProgress

\* A queueOperation that forgets to chain: every operation is attached to the
\* initial, already resolved promise.
queueOperation_Unchained(s, op) ==
  [s EXCEPT !.ops = Append(@, [op EXCEPT !.prev = 0]),
            !.operationQueue = Len(s.ops) + 1]

\* queueOperation chains the operation behind the current tail of the chain
\* and makes `result.catch(() => {})` the new tail.
queueOperation(s, op) ==
  [s EXCEPT !.ops = Append(@, [op EXCEPT !.prev = s.operationQueue]),
            !.operationQueue = Len(s.ops) + 1]

\* A chain whose then-callback does not wait for the promise it hangs on.
CanBegin_NoWait(s, i) == s.ops[i].status = "queued"

\* The then-callback of op i may run: the promise it was chained on settled.
CanBegin(s, i) ==
  /\ s.ops[i].status = "queued"
  /\ IF s.ops[i].prev = 0 THEN TRUE
     ELSE s.ops[s.ops[i].prev].status \in Settled

\* Some then-callback is ready: it runs as a microtask, before any task.
MicrotaskReady(s) == \E i \in 1..Len(s.ops) : CanBegin(s, i)

----------------------------------------------------------------------------
\* sendCommandInternal and uploadImage.

RECURSIVE OnCommandError(_, _, _)

\* sendCommandInternal, lines 233-258: throw when not connected, else arm the
\* exchange (resolver and timer) and call writeValue.
sendCommandInternal(s, i, code) ==
  LET c == Len(s.cmds) + 1
      t == [s EXCEPT !.ops[i].step = code] IN
  IF ~s.commandChar
  THEN OnCommandError(
         [t EXCEPT !.sent = Append(@, CommandEntry(i, code, 0, "threw"))],
         i, "NotConnected")
  ELSE [t EXCEPT !.cmds = Append(@, [code |-> code, owner |-> i,
                                     promise |-> "pending", value |-> NoFrame]),
                 !.responseResolver = c,
                 !.timers = Append(@, c),
                 !.sent = Append(@, CommandEntry(i, code, c, "pending")),
                 !.ops[i].pc = "writing",
                 !.ops[i].cur = c]

\* An uploadImage whose finally clause leaves the progress callback set.
UploadSettle_KeepsCallback(s, i, status, result) ==
  LET t == QueueSettle(s, i, status, result) IN
  IF status = "rejected"
  THEN [t EXCEPT !.uploadError = UploadErrorOf(result, lastProgress(s, i))]
  ELSE t

\* uploadImage's finally clause (line 459) followed by the settlement of the
\* queue entry and, when it rejects, by the catch clause of handleUpload
\* (DeviceScreen.tsx lines 102-125).
UploadSettle(s, i, status, result) ==
  LET t == QueueSettle([s EXCEPT !.progressCallback = 0], i, status, result) IN
  IF status = "rejected"
  THEN [t EXCEPT !.uploadError = UploadErrorOf(result, lastProgress(s, i))]
  ELSE t

\* A cleanup that lets the error of its CANCEL_UPLOAD escape.
CleanupRethrow_CancelError(original, cancelError) == cancelError

\* What uploadImage throws after its cleanup CANCEL_UPLOAD failed with
\* cancelError: the error that caused the cleanup (lines 454-457).
CleanupRethrow(original, cancelError) == original

\* The catch clause of uploadImage, lines 450-453: best-effort CANCEL_UPLOAD.
UploadCatch(s, i, error) ==
  sendCommandInternal([s EXCEPT !.ops[i].error = error], i, CMD_CANCEL_UPLOAD)

\* A caller that sends the command again when its write failed.
OnCommandError_RetryWrite(s, i, error) ==
  IF error = "WriteError"
     /\ Cardinality({k \in EntriesOf(s.sent, i) :
                       s.sent[k].code = s.ops[i].step}) < 2
  THEN sendCommandInternal(s, i, s.ops[i].step)
  ELSE IF s.ops[i].kind = "upload"
  THEN IF s.ops[i].step = CMD_CANCEL_UPLOAD
       THEN UploadSettle(s, i, "rejected",
                         CleanupRethrow(s.ops[i].error, error))
       ELSE UploadCatch(s, i, error)
  ELSE QueueSettle(s, i, "rejected", error)

\* The awaited sendCommandInternal call of op i rejected with error.
OnCommandError(s, i, error) ==
  IF s.ops[i].kind = "upload"
  THEN IF s.ops[i].step = CMD_CANCEL_UPLOAD
       THEN UploadSettle(s, i, "rejected",
                         CleanupRethrow(s.ops[i].error, error))
       ELSE UploadCatch(s, i, error)
  ELSE QueueSettle(s, i, "rejected", error)

\* A slice that does not stop at the end of the payload.
ChunkLen_PastEnd(s, i) == CHUNK_SIZE

\* data.slice(offset, offset + CHUNK_SIZE).length, line 404.
ChunkLen(s, i) ==
  IF s.ops[i].len - s.ops[i].offset < CHUNK_SIZE
  THEN s.ops[i].len - s.ops[i].offset ELSE CHUNK_SIZE

\* A retry loop that gives up one failure too late.
ChunkFailed_OneTooMany(s, i, error) ==
  LET r == s.ops[i].retries + 1 IN
  IF r > MAX_RETRIES
  THEN UploadCatch([s EXCEPT !.ops[i].retries = r], i, error)
  ELSE [s EXCEPT !.ops[i].retries = r, !.ops[i].pc = "backoff",
                 !.ops[i].waitTime = BACKOFF_MS * r]

\* A retry loop that waits the same time before every retry.
ChunkFailed_ConstantBackoff(s, i, error) ==
  LET r == s.ops[i].retries + 1 IN
  IF r >= MAX_RETRIES
  THEN UploadCatch([s EXCEPT !.ops[i].retries = r], i, error)
  ELSE [s EXCEPT !.ops[i].retries = r, !.ops[i].pc = "backoff",
                 !.ops[i].waitTime = BACKOFF_MS]

\* The catch clause of the retry loop, lines 415-428.
ChunkFailed(s, i, error) ==
  LET r == s.ops[i].retries + 1 IN
  IF r >= MAX_RETRIES
  THEN UploadCatch([s EXCEPT !.ops[i].retries = r], i, error)
  ELSE [s EXCEPT !.ops[i].retries = r, !.ops[i].pc = "backoff",
                 !.ops[i].waitTime = BACKOFF_MS * r]

\* A retry that moves on to the next chunk instead of the failed one.
WriteChunk_SkipsOnRetry(s, i) ==
  LET o == IF s.ops[i].retries > 0 /\ s.ops[i].offset + CHUNK_SIZE < s.ops[i].len
           THEN s.ops[i].offset + CHUNK_SIZE ELSE s.ops[i].offset
      t == [s EXCEPT !.ops[i].offset = o] IN
  IF s.imageDataChar
  THEN [t EXCEPT !.sent = Append(@, ChunkEntry(i, o, ChunkLen(t, i), "pending")),
                 !.ops[i].pc = "chunkWriting"]
  ELSE ChunkFailed(
         [t EXCEPT !.sent = Append(@, ChunkEntry(i, o, ChunkLen(t, i), "threw"))],
         i, "TypeError")

\* One attempt to write the chunk at the current offset, lines 410-414.  A
\* null imageDataChar makes the call throw inside the try block.
WriteChunk(s, i) ==
  IF s.imageDataChar
  THEN [s EXCEPT !.sent = Append(@, ChunkEntry(i, s.ops[i].offset,
                                               ChunkLen(s, i), "pending")),
                 !.ops[i].pc = "chunkWriting"]
  ELSE ChunkFailed(
         [s EXCEPT !.sent = Append(@, ChunkEntry(i, s.ops[i].offset,
                                                 ChunkLen(s, i), "threw"))],
         i, "TypeError")

\* A chunk loop that stops before a last, shorter chunk.
UploadLoop_LeavesEarly(s, i) ==
  IF s.ops[i].offset + CHUNK_SIZE <= s.ops[i].len
  THEN WriteChunk([s EXCEPT !.ops[i].retries = 0], i)
  ELSE [s EXCEPT !.ops[i].pc = "settleDelay"]

\* The head of the chunk loop, lines 403-408, and the exit of the loop.
UploadLoop(s, i) ==
  IF s.ops[i].offset < s.ops[i].len
  THEN WriteChunk([s EXCEPT !.ops[i].retries = 0], i)
  ELSE [s EXCEPT !.ops[i].pc = "settleDelay"]

\* An upload that does not look at the answer to START_UPLOAD.
OnCommandResponse_StartUnchecked(s, i, frame) ==
  LET okText == IF frame.code = RESP_OK THEN "true" ELSE "false" IN
  IF s.ops[i].kind = "upload"
  THEN CASE s.ops[i].step = CMD_START_UPLOAD -> UploadLoop(s, i)
         [] s.ops[i].step = CMD_FINISH_UPLOAD ->
              UploadSettle(s, i, "resolved", okText)
         [] OTHER -> UploadSettle(s, i, "rejected", s.ops[i].error)
  ELSE IF s.ops[i].kind \in Queries
  THEN IF frame.code # Expected(s.ops[i].kind)
       THEN QueueSettle(s, i, "rejected", "UnexpectedResponse")
       ELSE QueueSettle(s, i, "resolved", "parsed")
  ELSE QueueSettle(s, i, "resolved", okText)

\* The awaited sendCommandInternal call of op i resolved with frame: the
\* continuations at lines 391-393, 449, 454-457, and of the one-command calls
\* (a query's payload is taken to parse).
OnCommandResponse(s, i, frame) ==
  LET okText == IF frame.code = RESP_OK THEN "true" ELSE "false" IN
  IF s.ops[i].kind = "upload"
  THEN CASE s.ops[i].step = CMD_START_UPLOAD ->
              IF frame.code # RESP_OK
              THEN UploadCatch(s, i, "FailedToStart")
              ELSE UploadLoop(s, i)
         [] s.ops[i].step = CMD_FINISH_UPLOAD ->
              UploadSettle(s, i, "resolved", okText)
         [] OTHER -> UploadSettle(s, i, "rejected", s.ops[i].error)
  ELSE IF s.ops[i].kind \in Queries
  THEN IF frame.code # Expected(s.ops[i].kind)
       THEN QueueSettle(s, i, "rejected", "UnexpectedResponse")
       ELSE QueueSettle(s, i, "resolved", "parsed")
  ELSE QueueSettle(s, i, "resolved", okText)

\* `return responsePromise` (line 260) after the write was acknowledged: the
\* caller continues at once if the promise has settled meanwhile, else waits.
AwaitResponse(s, i) ==
  LET c == s.ops[i].cur IN
  CASE s.cmds[c].promise = "resolved" -> OnCommandResponse(s, i, s.cmds[c].value)
    [] s.cmds[c].promise = "rejected" -> OnCommandError(s, i, "Timeout")
    [] OTHER -> [s EXCEPT !.ops[i].pc = "awaiting"]

\* Whether op i is suspended on the response promise of command c.
Awaits(s, i, c) == s.ops[i].pc = "awaiting" /\ s.ops[i].cur = c

\* The operation passed to queueOperation starts (lines 218-220).
StartOperation(s, i) ==
  LET t == [s EXCEPT !.isOperationInProgress = TRUE,
                     !.ops[i].status = "running"] IN
  CASE t.ops[i].kind = "upload" ->
         sendCommandInternal([t EXCEPT !.progressCallback = i], i,
                             CMD_START_UPLOAD)
    [] OTHER -> sendCommandInternal(t, i, CommandOf(t.ops[i].kind))

----------------------------------------------------------------------------
\* A handler that takes a frame of zero length for a response.
handleResponse_NoLengthCheck(s, frame) ==
  LET c == s.responseResolver
      r == [s EXCEPT !.inbound =
                       Append(@, [byteLength |-> frame.byteLength,
                                  resolver |-> s.responseResolver])] IN
  IF frame.code = RESP_PROGRESS /\ s.progressCallback # 0
  THEN trackProgress(r, s.progressCallback, frame.offset, 0)
  ELSE IF c = 0 THEN r
  ELSE LET t == [r EXCEPT !.responseResolver = 0,
                          !.cmds[c].promise =
                             IF @ = "pending" THEN "resolved" ELSE @,
                          !.cmds[c].value =
                             IF s.cmds[c].promise = "pending" THEN frame ELSE @]
       IN IF s.cmds[c].promise = "pending" /\ Awaits(s, s.cmds[c].owner, c)
          THEN OnCommandResponse(t, s.cmds[c].owner, frame)
          ELSE t

\* handleResponse, lines 192-212.
handleResponse(s, frame) ==
  LET c == s.responseResolver
      r == [s EXCEPT !.inbound =
                       Append(@, [byteLength |-> frame.byteLength,
                                  resolver |-> s.responseResolver])] IN
  IF frame.byteLength = 0 THEN r
  ELSE IF frame.code = RESP_PROGRESS /\ s.progressCallback # 0
  THEN trackProgress(r, s.progressCallback, frame.offset, 0)
  ELSE IF c = 0 THEN r
  ELSE LET t == [r EXCEPT !.responseResolver = 0,
                          !.cmds[c].promise =
                             IF @ = "pending" THEN "resolved" ELSE @,
                          !.cmds[c].value =
                             IF s.cmds[c].promise = "pending" THEN frame ELSE @]
       IN IF s.cmds[c].promise = "pending" /\ Awaits(s, s.cmds[c].owner, c)
          THEN OnCommandResponse(t, s.cmds[c].owner, frame)
          ELSE t

\* The timer callback of command c, lines 249-254.
TimerCallback(s, c) ==
  IF s.responseResolver = 0 THEN s
  ELSE LET t == [s EXCEPT !.responseResolver = 0,
                          !.cmds[c].promise =
                             IF @ = "pending" THEN "rejected" ELSE @]
       IN IF s.cmds[c].promise = "pending" /\ Awaits(s, s.cmds[c].owner, c)
          THEN OnCommandError(t, s.cmds[c].owner, "Timeout")
          ELSE t

----------------------------------------------------------------------------
\* The quantizer of src/src/components/Gallery.tsx, lines 207-263.

COLOR_WHITE == 0
COLOR_YELLOW == 1
COLOR_RED == 2
COLOR_BLACK == 3

\* A 4-colour palette in which two entries share a code.
PALETTE_COLOR_SharedCode ==
  << [r |-> 255, g |-> 255, b |-> 255, value |-> COLOR_WHITE],
     [r |-> 255, g |-> 231, b |-> 76, value |-> COLOR_YELLOW],
     [r |-> 179, g |-> 57, b |-> 57, value |-> COLOR_YELLOW],
     [r |-> 0, g |-> 0, b |-> 0, value |-> COLOR_BLACK] >>

PALETTE_COLOR ==
  << [r |-> 255, g |-> 255, b |-> 255, value |-> COLOR_WHITE],
     [r |-> 255, g |-> 231, b |-> 76, value |-> COLOR_YELLOW],
     [r |-> 179, g |-> 57, b |-> 57, value |-> COLOR_RED],
     [r |-> 0, g |-> 0, b |-> 0, value |-> COLOR_BLACK] >>

PALETTE_BW ==
  << [r |-> 255, g |-> 255, b |-> 255, value |-> COLOR_WHITE],
     [r |-> 0, g |-> 0, b |-> 0, value |-> COLOR_BLACK] >>

\* processImage, line 293.
PaletteOf(colorMode) == IF colorMode = "color" THEN PALETTE_COLOR ELSE PALETTE_BW

\* Channel values are carried in units of 1/Scale, so that the arguments of
\* findClosestColor (clamped floats) may lie between two integers.
Scale == 2

\* colorDistance, lines 241-247, as its square in units of 1/Scale^2.  The
\* sums of squares are integers far below 2^53 and Math.sqrt is increasing
\* and separates them, so `<` on the distances is `<` on these squares.
colorDistance(r1, g1, b1, r2, g2, b2) ==
  (r1 - r2) * (r1 - r2) + (g1 - g2) * (g1 - g2) + (b1 - b2) * (b1 - b2)

\* The initial minDistance, line 251.
Infinity == -1

\* A comparison that also replaces the closest entry on a tie.
Closer_OrEqual(dist, minDistance) ==
  minDistance = Infinity \/ dist <= minDistance

\* `dist < minDistance`, line 256.
Closer(dist, minDistance) ==
  minDistance = Infinity \/ dist < minDistance

\* The loop of findClosestColor, lines 254-260, from entry k on.
RECURSIVE ClosestFrom(_, _, _, _, _, _, _)
ClosestFrom(r, g, b, palette, k, minDistance, best) ==
  IF k > Len(palette) THEN best
  ELSE LET color == palette[k]
           dist == colorDistance(r, g, b, Scale * color.r, Scale * color.g,
                                 Scale * color.b)
       IN IF Closer(dist, minDistance)
          THEN ClosestFrom(r, g, b, palette, k + 1, dist, color)
          ELSE ClosestFrom(r, g, b, palette, k + 1, minDistance, best)

\* findClosestColor, lines 250-263.
findClosestColor(r, g, b, palette) ==
  ClosestFrom(r, g, b, palette, 1, Infinity, palette[1])

NoPixel == [r |-> 0, g |-> 0, b |-> 0, colorMode |-> "none"]

NoColor == [r |-> 0, g |-> 0, b |-> 0, value |-> -1]

----------------------------------------------------------------------------
\* The packing stage of processImage, Gallery.tsx lines 203-205 and 400-423.

EPD_WIDTH == 800
EPD_HEIGHT == 480

\* A buffer sized for one bit per pixel.
BUFFER_SIZE_OneBitPerPixel == (EPD_WIDTH * EPD_HEIGHT) \div 8

BUFFER_SIZE == (EPD_WIDTH * EPD_HEIGHT * 2) \div 8

\* targetW and targetH, lines 297-298.
targetW(orientation) == IF orientation = "vertical" THEN EPD_HEIGHT ELSE EPD_WIDTH

targetH(orientation) == IF orientation = "vertical" THEN EPD_WIDTH ELSE EPD_HEIGHT

\* The dithered working grid handed to the packing stage: a fixed test image
\* of palette entries, indexed like ditheredColors (y * targetW + x).  Its
\* codes are the base-4 digits of a running number, so that every one of the
\* 256 four-code groups occurs in a byte, in either orientation.  An index
\* outside the grid reads undefined.
ditheredColors(colorMode, orientation, idx) ==
  IF idx < 0 \/ idx >= targetW(orientation) * targetH(orientation)
  THEN NoColor
  ELSE LET u == idx + idx \div EPD_HEIGHT
           digit == ((u \div 4) \div (4 ^ (u % 4))) % 4
           palette == PaletteOf(colorMode)
       IN palette[(digit % Len(palette)) + 1]

\* A rotation that takes the row from the wrong dimension.
SourceCell_FromWidth(isVertical, x, y) ==
  IF isVertical THEN [x |-> EPD_WIDTH - 1 - y, y |-> x] ELSE [x |-> x, y |-> y]

\* srcX and srcY, lines 407-416.
SourceCell(isVertical, x, y) ==
  IF isVertical THEN [x |-> EPD_HEIGHT - 1 - y, y |-> x] ELSE [x |-> x, y |-> y]

\* a | b on bytes.
RECURSIVE BitOr(_, _)
BitOr(a, b) ==
  IF a = 0 THEN b
  ELSE IF b = 0 THEN a
  ELSE (IF a % 2 = 1 \/ b % 2 = 1 THEN 1 ELSE 0) + 2 * BitOr(a \div 2, b \div 2)

\* new Uint8Array(size), line 401.  The loop writes the elements in rising
\* order, so the buffer is held as its length and the element last written:
\* the elements below index are final, those above are zero.  A write below
\* index sets revisited.
NewBuffer(size) ==
  [length |-> size, index |-> 0, byte |-> 0, revisited |-> FALSE]

NoBuffer == [length |-> 0, index |-> 0, byte |-> 0, revisited |-> FALSE]

\* binaryData[i] |= v on a Uint8Array: a write outside the array is dropped
\* and the element keeps the low 8 bits.
OrInto(buf, i, v) ==
  CASE i < 0 \/ i >= buf.length -> buf
    [] i = buf.index -> [buf EXCEPT !.byte = BitOr(@, v) % 256]
    [] i > buf.index -> [buf EXCEPT !.index = i, !.byte = v % 256]
    [] OTHER -> [buf EXCEPT !.revisited = TRUE]

\* A bit position counted from the low end.
bitPosition_LowFirst(pixelIndex) == (pixelIndex % 4) * 2

\* bitPosition, line 420.
bitPosition(pixelIndex) == (3 - (pixelIndex % 4)) * 2

\* The body of the packing loop, lines 406-421, for device pixel (x, y).
PackPixel(buf, colorMode, orientation, x, y) ==
  LET src == SourceCell(orientation = "vertical", x, y)
      color == ditheredColors(colorMode, orientation,
                              src.y * targetW(orientation) + src.x)
      pixelIndex == y * EPD_WIDTH + x
      byteIndex == pixelIndex \div 4
  IN OrInto(buf, byteIndex, color.value * (2 ^ bitPosition(pixelIndex)))

NoJob == [colorMode |-> "none", orientation |-> "none"]

\* No codec call is in progress.
CodecIdle ==
  /\ pixel = NoPixel
  /\ closest = NoColor
  /\ job = NoJob
  /\ epdX = 0
  /\ epdY = 0
  /\ binaryData = NoBuffer

----------------------------------------------------------------------------
\* deviceStore (src/src/stores/deviceStore.ts) and the connection callback of
\* App (src/unnamed/part_004, lines 58-66).

NoFlow == [name |-> "none", pc |-> "idle"]

\* The state the DeviceStore constructor builds, lines 28-37.
InitialStore ==
  [isConnected |-> FALSE, isConnecting |-> FALSE, deviceInfo |-> "null",
   settings |-> "null", images |-> <<>>]

setConnecting(st, isConnecting) == [st EXCEPT !.isConnecting = isConnecting]

setConnected(st, isConnected) ==
  [st EXCEPT !.isConnected = isConnected, !.isConnecting = FALSE]

setDeviceInfo(st, deviceInfo) == [st EXCEPT !.deviceInfo = deviceInfo]

setSettings(st, settings) == [st EXCEPT !.settings = settings]

setImages(st, images) == [st EXCEPT !.images = images]

resetConnection(st) ==
  [st EXCEPT !.isConnected = FALSE, !.isConnecting = FALSE,
             !.deviceInfo = "null", !.settings = "null", !.images = <<>>]

\* The callback App subscribes with onConnectionChange; scr is the value of
\* `screen` in the render that subscribed it.
ConnectionCallback(st, scr, connected) ==
  LET t == setConnected(st, connected) IN
  IF ~connected /\ scr = "device" THEN resetConnection(t) ELSE t

----------------------------------------------------------------------------
\* The normalisation of a SETTINGS payload by getSettings, lines 340-347.

\* A JSON value: its type and its text.
Num(v) == [t |-> "number", v |-> v]

Str(v) == [t |-> "string", v |-> v]

Bool(v) == [t |-> "boolean", v |-> v]

Undefined == [t |-> "undefined", v |-> ""]

\* An equality that converts between types (==): a string or a boolean is
\* compared as the number it converts to.
StrictEquals_Converting(a, b) ==
  LET n(x) == IF x.t = "boolean" THEN (IF x.v = "true" THEN "1" ELSE "0") ELSE x.v
  IN a.t # "undefined" /\ b.t # "undefined" /\ n(a) = n(b)

\* a === b: the same type and the same value.
StrictEquals(a, b) == a.t = b.t /\ a.v = b.v

\* The decimal texts the payloads use, with their values.
Decimal == [x \in {"0", "1", "2", "5"} |->
              CASE x = "0" -> 0 [] x = "1" -> 1 [] x = "2" -> 2 [] OTHER -> 5]

\* parseInt(a): the integer a number or a decimal string denotes, else NaN.
parseInt(a) ==
  IF a.t \in {"number", "string"} /\ a.v \in DOMAIN Decimal
  THEN Decimal[a.v] ELSE NaN

\* Whether a is truthy.
Truthy(a) ==
  CASE a.t = "number" -> a.v # "0"
    [] a.t = "string" -> a.v # ""
    [] a.t = "boolean" -> a.v = "true"
    [] OTHER -> FALSE

\* The object getSettings returns for the parsed payload d, lines 342-347.
getSettings(d) ==
  [slideshow |-> StrictEquals(d.slideshow, Num("1"))
                   \/ StrictEquals(d.slideshow, Str("1")),
   interval |-> parseInt(d.interval),
   random |-> StrictEquals(d.random, Num("1"))
                \/ StrictEquals(d.random, Str("1")),
   current |-> IF Truthy(d.current) THEN d.current ELSE Str("")]

NoData ==
  [slideshow |-> Undefined, interval |-> Undefined, random |-> Undefined,
   current |-> Undefined]

NoSettings ==
  [slideshow |-> FALSE, interval |-> NaN, random |-> FALSE,
   current |-> Undefined]

\* No payload is being normalised.
ParserIdle ==
  /\ data = NoData
  /\ deviceSettings = NoSettings

----------------------------------------------------------------------------
\* The paired-device list of deviceStore (src/src/stores/deviceStore.ts).

\* Method calls are made while fewer than MaxCalls were made before.
MaxCalls == 4

\* The ids and names of the devices a scan returns.
DeviceIds == {"dev1", "dev2"}
DeviceNames == {"Frame", "Frame-2"}

\* A lastConnected that is absent.
NeverConnected == -1

NoCall == [method |-> "none", id |-> "none", name |-> "none"]

\* The store's list, the stored item and the count of listener runs as one
\* record.
P == [pairedDevices |-> pairedDevices, storage |-> storage,
      notified |-> notified]

\* savePairedDevices, lines 51-57: setItem may throw, which is ignored.
savePairedDevices(p, ok) ==
  IF ok THEN [p EXCEPT !.storage = p.pairedDevices] ELSE p

\* notify, lines 66-68.
notify(p) == [p EXCEPT !.notified = p.notified + 1]

\* The entry addPairedDevice builds, line 87.
NewDevice(device, t) ==
  [id |-> device.id, name |-> device.name, addedAt |-> t,
   lastConnected |-> NeverConnected]

\* An addPairedDevice that appends without looking for the id.
addPairedDevice_NoCheck(p, device, t, ok) ==
  notify(savePairedDevices(
    [p EXCEPT !.pairedDevices = Append(p.pairedDevices, NewDevice(device, t))],
    ok))

\* addPairedDevice, lines 76-91.
addPairedDevice(p, device, t, ok) ==
  IF \E k \in 1..Len(p.pairedDevices) : p.pairedDevices[k].id = device.id
  THEN p
  ELSE notify(savePairedDevices(
         [p EXCEPT !.pairedDevices =
                     Append(p.pairedDevices, NewDevice(device, t))], ok))

\* removePairedDevice, lines 94-101.
removePairedDevice(p, deviceId, ok) ==
  notify(savePairedDevices(
    [p EXCEPT !.pairedDevices =
                SelectSeq(p.pairedDevices, LAMBDA d : d.id # deviceId)], ok))

\* updateLastConnected, lines 104-113.
updateLastConnected(p, deviceId, t, ok) ==
  notify(savePairedDevices(
    [p EXCEPT !.pairedDevices =
       [k \in 1..Len(p.pairedDevices) |->
          IF p.pairedDevices[k].id = deviceId
          THEN [p.pairedDevices[k] EXCEPT !.lastConnected = t]
          ELSE p.pairedDevices[k]]], ok))

\* No paired-device method has been called.
PairedIdle ==
  /\ pairedDevices = <<>>
  /\ storage = <<>>
  /\ notified = 0
  /\ now = 0
  /\ call = NoCall

----------------------------------------------------------------------------
\* The image-list parser: getImages, lines 290-300, after the response code
\* was accepted.

\* The longest payload, in bytes.
MaxListLen == 5

\* The bytes of a payload: line feed, 'a' and 'b'.
LF == 10
PayloadBytes == {LF, 97, 98}

\* TextDecoder.decode on these bytes (parseResponse, lines 269-273): one
\* character a byte.
decode(bytes) ==
  [k \in 1..Len(bytes) |->
     CASE bytes[k] = LF -> "\n"
       [] bytes[k] = 97 -> "a"
       [] bytes[k] = 98 -> "b"]

\* String.prototype.split with a one-character separator: the pieces between
\* separators, empty ones included; a string without separator is one piece.
RECURSIVE split(_, _)
split(str, sep) ==
  LET at == {k \in 1..Len(str) : str[k] = sep} IN
  IF at = {} THEN <<str>>
  ELSE LET k == CHOOSE m \in at : \A n \in at : m <= n IN
       <<SubSeq(str, 1, k - 1)>> \o split(SubSeq(str, k + 1, Len(str)), sep)

\* A getImages that returns the pieces as they are.
getImages_Unfiltered(bytes) ==
  LET listStr == decode(bytes) IN
  IF Len(listStr) = 0 THEN <<>> ELSE split(listStr, "\n")

\* getImages, lines 297-299.
getImages(bytes) ==
  LET listStr == decode(bytes) IN
  IF Len(listStr) = 0 THEN <<>>
  ELSE SelectSeq(split(listStr, "\n"), LAMBDA name : Len(name) > 0)

\* No image list is being parsed.
ListerIdle ==
  /\ listPayload = <<>>
  /\ imageNames = <<>>
  /\ listed = FALSE

----------------------------------------------------------------------------
\* One iteration of the dithering loop of processImage, Gallery.tsx lines
\* 338-395.  Channel values and errors are in units of 1/Scale, additions to
\* pixels in units of 1/(16 * Scale).

\* Lines 343-345: Math.max(0, Math.min(255, v)).
Clamp(v) ==
  LET upper == IF v < 255 * Scale THEN v ELSE 255 * Scale IN
  IF upper > 0 THEN upper ELSE 0

\* An error taken the other way round.
quantError_Reversed(old, newColor) ==
  [r |-> newColor.r * Scale - old.r, g |-> newColor.g * Scale - old.g,
   b |-> newColor.b * Scale - old.b]

\* Lines 358-360: errR, errG, errB.
quantError(old, newColor) ==
  [r |-> old.r - newColor.r * Scale, g |-> old.g - newColor.g * Scale,
   b |-> old.b - newColor.b * Scale]

NoError == [r |-> 0, g |-> 0, b |-> 0]

\* Line 364.
HasRight(col, w) == col + 1 < w

\* A below-left test that forgets the left edge.
HasBelowLeft_AtLeftEdge(col, row, h) == row + 1 < h

\* Line 372.
HasBelowLeft(col, row, h) == row + 1 < h /\ col > 0

\* Line 380.
HasBelow(row, h) == row + 1 < h

\* Line 388.
HasBelowRight(col, row, w, h) == row + 1 < h /\ col + 1 < w

\* pixels[i] += errR * weight / 16 and the same at i + 1 and i + 2; a
\* Float32Array drops a write past its end.
AddTo(i, e, weight, w, h) ==
  IF i + 2 < w * h * 4
  THEN {[i |-> i, r |-> e.r * weight, g |-> e.g * weight, b |-> e.b * weight]}
  ELSE {}

\* Lines 362-393: the additions of one iteration at column col, row row.
Distribute(col, row, w, h, e) ==
  LET idx == (row * w + col) * 4 IN
  (IF HasRight(col, w) THEN AddTo(idx + 4, e, 7, w, h) ELSE {})
  \cup (IF HasBelowLeft(col, row, h)
        THEN AddTo(idx + (w - 1) * 4, e, 3, w, h) ELSE {})
  \cup (IF HasBelow(row, h) THEN AddTo(idx + w * 4, e, 5, w, h) ELSE {})
  \cup (IF HasBelowRight(col, row, w, h)
        THEN AddTo(idx + (w + 1) * 4, e, 1, w, h) ELSE {})

\* The dithering loop is not running.
DitherIdle ==
  /\ ditherX = 0
  /\ ditherY = 0
  /\ err = NoError
  /\ diffused = {}

AsideIdle == PairedIdle /\ ListerIdle /\ DitherIdle

----------------------------------------------------------------------------
\* Actions.

Init ==
  /\ commandChar = TRUE
  /\ responseChar = TRUE
  /\ imageDataChar = TRUE
  /\ responseResolver = 0
  /\ progressCallback = 0
  /\ operationQueue = 0
  /\ isOperationInProgress = FALSE
  /\ ops = <<>>
  /\ cmds = <<>>
  /\ timers = <<>>
  /\ devicePending = {}
  /\ sent = <<>>
  /\ inbound = <<>>
  /\ reports = <<>>
  /\ uploadError = NoUploadError
  /\ serverConnected = TRUE
  /\ screen = "devices"
  /\ listenerScreen = "devices"
  /\ store = InitialStore
  /\ flow = NoFlow
  /\ CodecIdle
  /\ ParserIdle
  /\ AsideIdle

\* Whether the tail of the promise chain is an operation not yet settled.
TailUnsettled ==
  IF operationQueue = 0 THEN FALSE
  ELSE ops[operationQueue].status \notin Settled

\* A caller invokes sendCommand (through nextImage) or cancelUpload.
Submit(kind) ==
  /\ Len(ops) < MaxOps
  /\ Apply(queueOperation(S, NewOp(kind, 0, TailUnsettled)))

\* handleUpload (DeviceScreen.tsx lines 82-96) clears uploadError and invokes
\* uploadImage, which throws before queueing when imageDataChar is null
\* (lines 380-382): the catch clause then records the error.
SubmitUpload(len) ==
  /\ Len(ops) < MaxOps
  /\ Cardinality({i \in 1..Len(ops) : ops[i].kind = "upload"}) < MaxUploads
  /\ IF imageDataChar
     THEN Apply(queueOperation([S EXCEPT !.uploadError = NoUploadError],
                               NewOp("upload", len, TailUnsettled)))
     ELSE Apply([S EXCEPT !.uploadError = UploadErrorOf("NotConnected", 0)])

\* The then-callback queueOperation chained for op i runs.
Begin(i) ==
  /\ CanBegin(S, i)
  /\ Apply(StartOperation(S, i))

\* commandChar.writeValue of op i's command settles; it is acknowledged only
\* over a link that is up.
CommandWriteDone(i, ok) ==
  /\ ~MicrotaskReady(S)
  /\ ok => serverConnected
  /\ ops[i].pc = "writing"
  /\ LET k == LastEntry(sent, i)
         t == [S EXCEPT !.sent[k].st = IF ok THEN "ok" ELSE "failed"]
     IN IF ok
        THEN Apply(AwaitResponse(
                 [t EXCEPT !.devicePending = @ \cup {ops[i].cur}], i))
        ELSE Apply(OnCommandError(t, i, "WriteError"))

\* imageDataChar.writeValue of op i's chunk settles (lines 413-435); an
\* acknowledged chunk is reported with onProgress(offset, data.length).
ChunkWriteDone(i, ok) ==
  /\ ~MicrotaskReady(S)
  /\ ok => serverConnected
  /\ ops[i].pc = "chunkWriting"
  /\ LET k == LastEntry(sent, i)
         t == [S EXCEPT !.sent[k].st = IF ok THEN "ok" ELSE "failed"]
     IN IF ok
        THEN Apply(trackProgress(
                 [t EXCEPT !.ops[i].offset = @ + ChunkLen(S, i),
                           !.ops[i].pc = "pacing"],
                 i, ops[i].offset + ChunkLen(S, i), ops[i].len))
        ELSE Apply(ChunkFailed(t, i, "WriteError"))

\* The retry backoff (300 ms * retries) of op i elapses.
BackoffDone(i) ==
  /\ ~MicrotaskReady(S)
  /\ ops[i].pc = "backoff"
  /\ Apply(WriteChunk(S, i))

\* The 10 ms pacing delay after a chunk elapses.
PacingDone(i) ==
  /\ ~MicrotaskReady(S)
  /\ ops[i].pc = "pacing"
  /\ Apply(UploadLoop(S, i))

\* The 100 ms settle delay elapses: FINISH_UPLOAD is sent (lines 445-448).
SettleDelayDone(i) ==
  /\ ~MicrotaskReady(S)
  /\ ops[i].pc = "settleDelay"
  /\ Apply(sendCommandInternal(S, i, CMD_FINISH_UPLOAD))

\* The device answers command c; the notification runs handleResponse.
DeviceReply(c, code) ==
  /\ ~MicrotaskReady(S)
  /\ responseChar
  /\ serverConnected
  /\ c \in devicePending
  /\ Apply(handleResponse([S EXCEPT !.devicePending = @ \ {c}],
                          Frame(code, c)))

\* The oldest armed 10 s timer fires.
TimerFire ==
  /\ ~MicrotaskReady(S)
  /\ timers # <<>>
  /\ Apply(TimerCallback([S EXCEPT !.timers = Tail(@)], Head(timers)))

\* The fields of the queue and of the command exchange.
exchange == <<responseResolver, progressCallback, operationQueue,
              isOperationInProgress, ops, cmds, timers, devicePending, sent,
              inbound, reports, uploadError>>

\* disconnect(), lines 169-189, after stopNotifications settled.
Disconnect ==
  /\ ~MicrotaskReady(S)
  /\ commandChar
  /\ commandChar' = FALSE
  /\ responseChar' = FALSE
  /\ imageDataChar' = FALSE
  /\ store' = ConnectionCallback(store, listenerScreen, FALSE)
  /\ UNCHANGED <<exchange, parser, aside, serverConnected, screen, listenerScreen, flow, codec>>

\* The link drops and the browser fires gattserverdisconnected: the listener
\* (lines 136-139) logs and notifies the connection callbacks, nothing else.
\* The event also follows a disconnect() that found the server connected.
GattServerDisconnected ==
  /\ ~MicrotaskReady(S)
  /\ serverConnected
  /\ serverConnected' = FALSE
  /\ store' = ConnectionCallback(store, listenerScreen, FALSE)
  /\ UNCHANGED <<commandChar, responseChar, imageDataChar, exchange, parser, aside, screen,
                 listenerScreen, flow, codec>>

Next ==
  \/ \E kind \in {"command", "cancel"} : Submit(kind)
  \/ \E len \in DataLens : SubmitUpload(len)
  \/ \E i \in 1..Len(ops) : Begin(i)
  \/ \E i \in 1..Len(ops), ok \in BOOLEAN : CommandWriteDone(i, ok)
  \/ \E i \in 1..Len(ops), ok \in BOOLEAN : ChunkWriteDone(i, ok)
  \/ \E i \in 1..Len(ops) : BackoffDone(i)
  \/ \E i \in 1..Len(ops) : PacingDone(i)
  \/ \E i \in 1..Len(ops) : SettleDelayDone(i)
  \/ \E c \in devicePending, code \in DeviceCodes : DeviceReply(c, code)
  \/ TimerFire
  \/ Disconnect
  \/ GattServerDisconnected

Spec == Init /\ [][Next]_vars

\* Payload lengths for runs without write failures: empty, one byte, around
\* one chunk, and eleven chunks of which the last holds 40 bytes.
PayloadLens == {0, 1, CHUNK_SIZE - 1, CHUNK_SIZE, CHUNK_SIZE + 1,
                10 * CHUNK_SIZE + 40}

\* The service driven by uploadImage alone over a transport on which every
\* writeValue is acknowledged; the device answers as it likes, or not at all.
UploadNext ==
  \/ \E len \in PayloadLens : SubmitUpload(len)
  \/ \E i \in 1..Len(ops) : Begin(i)
  \/ \E i \in 1..Len(ops) : CommandWriteDone(i, TRUE)
  \/ \E i \in 1..Len(ops) : ChunkWriteDone(i, TRUE)
  \/ \E i \in 1..Len(ops) : PacingDone(i)
  \/ \E i \in 1..Len(ops) : SettleDelayDone(i)
  \/ \E c \in devicePending, code \in DeviceCodes : DeviceReply(c, code)
  \/ TimerFire

UploadSpec == Init /\ [][UploadNext]_vars

----------------------------------------------------------------------------
\* The service with a device that also notifies on its own: empty frames and
\* PROGRESS frames, and that answers with any response code.

\* The response codes of the device.
FrameCodes == {RESP_OK, RESP_ERROR, RESP_INFO, RESP_IMAGE_LIST, RESP_SETTINGS}

\* The byte counts a PROGRESS frame reports.
ProgressOffsets == {0, CHUNK_SIZE}

\* The notifications the device sends unasked.
Notifications == {EmptyFrame} \cup {ProgressFrame(o) : o \in ProgressOffsets}

\* The notifications handled so far that answer no command.
Unsolicited == {k \in 1..Len(inbound) : inbound[k].byteLength # 1}

\* The response characteristic notifies with a frame the device sent unasked;
\* the event runs handleResponse.
DeviceNotify(frame) ==
  /\ ~MicrotaskReady(S)
  /\ responseChar
  /\ serverConnected
  /\ Cardinality(Unsolicited) < MaxNotifications
  /\ Apply(handleResponse(S, frame))

\* Calls are made while fewer than MaxFrameOps were made before.
FrameNext ==
  \/ Len(ops) < MaxFrameOps /\ \E kind \in Queries : Submit(kind)
  \/ Len(ops) < MaxFrameOps /\ \E len \in DataLens : SubmitUpload(len)
  \/ \E i \in 1..Len(ops) : Begin(i)
  \/ \E i \in 1..Len(ops) : CommandWriteDone(i, TRUE)
  \/ \E i \in 1..Len(ops), ok \in BOOLEAN : ChunkWriteDone(i, ok)
  \/ \E i \in 1..Len(ops) : BackoffDone(i)
  \/ \E i \in 1..Len(ops) : PacingDone(i)
  \/ \E i \in 1..Len(ops) : SettleDelayDone(i)
  \/ \E c \in devicePending, code \in FrameCodes : DeviceReply(c, code)
  \/ TimerFire
  \/ \E frame \in Notifications : DeviceNotify(frame)

FrameSpec == Init /\ [][FrameNext]_vars

----------------------------------------------------------------------------
\* An upload and a command sharing the queue, over a transport on which every
\* writeValue is acknowledged, with a device that also sends PROGRESS frames
\* on its own.
ProgressNext ==
  \/ Submit("command")
  \/ \E len \in DataLens : SubmitUpload(len)
  \/ \E i \in 1..Len(ops) : Begin(i)
  \/ \E i \in 1..Len(ops) : CommandWriteDone(i, TRUE)
  \/ \E i \in 1..Len(ops) : ChunkWriteDone(i, TRUE)
  \/ \E i \in 1..Len(ops) : PacingDone(i)
  \/ \E i \in 1..Len(ops) : SettleDelayDone(i)
  \/ \E c \in devicePending, code \in DeviceCodes : DeviceReply(c, code)
  \/ TimerFire
  \/ DeviceNotify(ProgressFrame(CHUNK_SIZE))

ProgressSpec == Init /\ [][ProgressNext]_vars

----------------------------------------------------------------------------
\* App (src/unnamed/part_004, lines 44-177) over the service.  A call of
\* getInfo, getSettings or getImages is taken by its outcome: it resolves,
\* which needs the characteristics and the link, or it rejects.

\* The service before any connection and the application before any action.
Unconnected ==
  /\ commandChar = FALSE
  /\ responseChar = FALSE
  /\ imageDataChar = FALSE
  /\ responseResolver = 0
  /\ progressCallback = 0
  /\ operationQueue = 0
  /\ isOperationInProgress = FALSE
  /\ ops = <<>>
  /\ cmds = <<>>
  /\ timers = <<>>
  /\ devicePending = {}
  /\ sent = <<>>
  /\ inbound = <<>>
  /\ reports = <<>>
  /\ uploadError = NoUploadError
  /\ serverConnected = FALSE
  /\ screen = "devices"
  /\ listenerScreen = "devices"
  /\ store = InitialStore
  /\ flow = NoFlow

AppInit == Unconnected /\ CodecIdle /\ ParserIdle /\ AsideIdle

\* The image lists a device reports.
ImageLists == {<<>>, <<"photo">>}

\* The subscribed callback is that of the current render: React runs the
\* effect of a render before it handles a later event.
Rendered == listenerScreen = screen

\* The effect of lines 58-66 runs after a render with a new `screen`: the
\* callback is subscribed anew, closing over the current value.
RunEffect ==
  /\ listenerScreen # screen
  /\ listenerScreen' = screen
  /\ UNCHANGED <<commandChar, responseChar, imageDataChar, exchange, parser, aside,
                 serverConnected, screen, store, flow, codec>>

\* "Add device" on the device list, lines 382 and 391.
AddDevice ==
  /\ Rendered
  /\ screen = "devices"
  /\ screen' = "select-type"
  /\ UNCHANGED <<commandChar, responseChar, imageDataChar, exchange, parser, aside,
                 serverConnected, listenerScreen, store, flow, codec>>

\* handleSelectDeviceType, lines 98-101.
handleSelectDeviceType ==
  /\ Rendered
  /\ screen = "select-type"
  /\ screen' = "scan"
  /\ UNCHANGED <<commandChar, responseChar, imageDataChar, exchange, parser, aside,
                 serverConnected, listenerScreen, store, flow, codec>>

\* handleOpenDevice up to `await bleService.connect()`, lines 69-76; from
\* the device screen the button shows only when neither connected nor
\* connecting.
handleOpenDevice ==
  /\ Rendered
  /\ flow = NoFlow
  /\ screen \in {"devices", "device"}
  /\ screen = "device" => ~store.isConnected /\ ~store.isConnecting
  /\ screen' = "device"
  /\ store' = setConnecting(store, TRUE)
  /\ flow' = [name |-> "open", pc |-> "connecting"]
  /\ UNCHANGED <<commandChar, responseChar, imageDataChar, exchange, parser, aside,
                 serverConnected, listenerScreen, codec>>

\* handleScan up to `await bleService.connect()`, lines 104-110.
handleScan ==
  /\ Rendered
  /\ flow = NoFlow
  /\ screen = "scan"
  /\ flow' = [name |-> "scan", pc |-> "connecting"]
  /\ UNCHANGED <<commandChar, responseChar, imageDataChar, exchange, parser, aside,
                 serverConnected, screen, listenerScreen, store, codec>>

\* bleService.connect() settles (bleService.ts lines 123-166) and the
\* handler continues: lines 77-85 and 92 of handleOpenDevice, lines 113 and
\* 137-138 of handleScan.
ConnectDone(ok) ==
  /\ Rendered
  /\ flow.pc = "connecting"
  /\ IF ok
     THEN /\ commandChar' = TRUE
          /\ responseChar' = TRUE
          /\ imageDataChar' = TRUE
          /\ serverConnected' = TRUE
          /\ LET st == ConnectionCallback(store, listenerScreen, TRUE) IN
             IF flow.name = "open"
             THEN /\ store' = setConnected(st, TRUE)
                  /\ flow' = [name |-> "open", pc |-> "loading"]
             ELSE /\ store' = st
                  /\ flow' = [name |-> "scan", pc |-> "getInfo"]
          /\ UNCHANGED screen
     ELSE /\ UNCHANGED <<commandChar, responseChar, imageDataChar,
                         serverConnected>>
          /\ flow' = NoFlow
          /\ IF flow.name = "open"
             THEN store' = setConnecting(store, FALSE) /\ UNCHANGED screen
             ELSE screen' = "select-type" /\ UNCHANGED store
  /\ UNCHANGED <<exchange, parser, aside, listenerScreen, codec>>

\* The awaited getInfo (handleScan, line 113) or Promise.all (lines 81-85 and
\* 125-128) settles and the handler runs to its end or to its next await.
LoadDone(ok, images) ==
  /\ Rendered
  /\ flow.pc \in {"getInfo", "loading"}
  /\ ok => commandChar /\ serverConnected
  /\ CASE ok /\ flow.name = "open" ->
            /\ store' = setImages(setSettings(setDeviceInfo(store, "info"),
                                              "settings"), images)
            /\ flow' = NoFlow
            /\ UNCHANGED screen
       [] ok /\ flow.pc = "getInfo" ->
            /\ store' = setDeviceInfo(setConnected(store, TRUE), "info")
            /\ flow' = [name |-> "scan", pc |-> "loading"]
            /\ UNCHANGED screen
       [] ok /\ flow.name = "scan" /\ flow.pc = "loading" ->
            /\ store' = setImages(setSettings(store, "settings"), images)
            /\ screen' = "device"
            /\ flow' = NoFlow
       [] ~ok /\ flow.name = "open" ->
            /\ store' = setConnecting(store, FALSE)
            /\ flow' = NoFlow
            /\ UNCHANGED screen
       [] OTHER ->
            /\ screen' = "select-type"
            /\ flow' = NoFlow
            /\ UNCHANGED store
  /\ UNCHANGED <<commandChar, responseChar, imageDataChar, exchange, parser, aside,
                 serverConnected, listenerScreen, codec>>

\* handleDisconnect, lines 145-148, from the connected device screen:
\* disconnect() notifies the callback, then the store is reset.
handleDisconnect ==
  /\ Rendered
  /\ screen = "device"
  /\ store.isConnected
  /\ commandChar' = FALSE
  /\ responseChar' = FALSE
  /\ imageDataChar' = FALSE
  /\ store' = resetConnection(ConnectionCallback(store, listenerScreen, FALSE))
  /\ UNCHANGED <<exchange, parser, aside, serverConnected, screen, listenerScreen, flow, codec>>

\* handleBack, lines 158-177.
handleBack ==
  /\ Rendered
  /\ screen # "devices"
  /\ CASE screen = "scan" ->
            /\ screen' = "select-type"
            /\ UNCHANGED <<commandChar, responseChar, imageDataChar, store>>
       [] screen = "select-type" ->
            /\ screen' = "devices"
            /\ UNCHANGED <<commandChar, responseChar, imageDataChar, store>>
       [] OTHER ->
            /\ screen' = "devices"
            /\ IF store.isConnected
               THEN /\ commandChar' = FALSE
                    /\ responseChar' = FALSE
                    /\ imageDataChar' = FALSE
                    /\ store' = resetConnection(
                                  ConnectionCallback(store, listenerScreen, FALSE))
               ELSE UNCHANGED <<commandChar, responseChar, imageDataChar, store>>
  /\ UNCHANGED <<exchange, parser, aside, serverConnected, listenerScreen, flow, codec>>

AppNext ==
  \/ RunEffect
  \/ AddDevice
  \/ handleSelectDeviceType
  \/ handleOpenDevice
  \/ handleScan
  \/ \E ok \in BOOLEAN : ConnectDone(ok)
  \/ \E ok \in BOOLEAN, images \in ImageLists : LoadDone(ok, images)
  \/ handleDisconnect
  \/ handleBack
  \/ Rendered /\ GattServerDisconnected

AppSpec == AppInit /\ [][AppNext]_vars

----------------------------------------------------------------------------
\* findClosestColor applied to pixels of both colour modes.

\* The channel values tried, in units of 1/Scale: the ends of the range, the
\* palette's channel values, a pixel as far from white as from red
\* (19, 133, 255), and the middle of the range, 127.5 for Scale = 2.
Levels ==
  {0, 19 * Scale, 57 * Scale, 76 * Scale, (255 * Scale) \div 2, 133 * Scale,
   179 * Scale, 231 * Scale, 255 * Scale}

NearestInit ==
  /\ Unconnected
  /\ pixel \in [r : Levels, g : Levels, b : Levels, colorMode : {"color", "bw"}]
  /\ closest = NoColor
  /\ job = NoJob
  /\ epdX = 0
  /\ epdY = 0
  /\ binaryData = NoBuffer
  /\ ParserIdle
  /\ AsideIdle

\* processImage, line 348: the call of findClosestColor on one pixel.
Quantize ==
  /\ closest = NoColor
  /\ closest' = findClosestColor(pixel.r, pixel.g, pixel.b,
                                 PaletteOf(pixel.colorMode))
  /\ UNCHANGED <<commandChar, responseChar, imageDataChar, exchange, parser, aside,
                 serverConnected, screen, listenerScreen, store, flow, pixel,
                 job, epdX, epdY, binaryData>>

NearestNext == Quantize

NearestSpec == NearestInit /\ [][NearestNext]_vars

----------------------------------------------------------------------------
\* The packing loop of processImage, one iteration a step.

\* processImage has dithered and allocated the buffer (line 401).
PackInit ==
  /\ Unconnected
  /\ pixel = NoPixel
  /\ closest = NoColor
  /\ job \in [colorMode : {"color", "bw"},
              orientation : {"horizontal", "vertical"}]
  /\ epdX = 0
  /\ epdY = 0
  /\ binaryData = NewBuffer(BUFFER_SIZE)
  /\ ParserIdle
  /\ AsideIdle

\* One iteration of the loops of lines 404-405.
Pack ==
  /\ job # NoJob
  /\ epdY < EPD_HEIGHT
  /\ binaryData' = PackPixel(binaryData, job.colorMode, job.orientation,
                             epdX, epdY)
  /\ epdX' = IF epdX + 1 < EPD_WIDTH THEN epdX + 1 ELSE 0
  /\ epdY' = IF epdX + 1 < EPD_WIDTH THEN epdY ELSE epdY + 1
  /\ UNCHANGED <<commandChar, responseChar, imageDataChar, exchange, parser, aside,
                 serverConnected, screen, listenerScreen, store, flow, pixel,
                 closest, job>>

PackNext == Pack

PackSpec == PackInit /\ [][PackNext]_vars

----------------------------------------------------------------------------
\* getImages on every payload of up to MaxListLen bytes.

RECURSIVE Payloads(_)
Payloads(n) ==
  IF n = 0 THEN {<<>>}
  ELSE LET shorter == Payloads(n - 1) IN
       shorter \cup {Append(q, b) : q \in {r \in shorter : Len(r) = n - 1},
                                    b \in PayloadBytes}

ListInit ==
  /\ Unconnected
  /\ CodecIdle
  /\ ParserIdle
  /\ PairedIdle
  /\ listPayload \in Payloads(MaxListLen)
  /\ imageNames = <<>>
  /\ listed = FALSE
  /\ DitherIdle

\* Lines 297-299 of getImages.
ParseList ==
  /\ ~listed
  /\ imageNames' = getImages(listPayload)
  /\ listed' = TRUE
  /\ UNCHANGED <<commandChar, responseChar, imageDataChar, exchange, parser,
                 serverConnected, screen, listenerScreen, store, flow, codec,
                 paired, dither, listPayload>>

ListNext == ParseList

ListSpec == ListInit /\ [][ListNext]_vars

----------------------------------------------------------------------------
\* One iteration of the dithering loop at the corners and edges of the
\* raster, on pixel values inside and outside 0..255.

\* The values pixels holds at the current pixel: below 0, 0, dark, mid-grey
\* between two integers, 255 and above 255.
RawValues ==
  {-8 * Scale, 0, 10 * Scale, 128 * Scale - 1, 255 * Scale, 300 * Scale}

\* The columns and rows visited: the first two and the last.
Columns(w) == {0, 1, w - 1}
Rows(h) == {0, 1, h - 1}

DitherInit ==
  /\ Unconnected
  /\ ParserIdle
  /\ PairedIdle
  /\ ListerIdle
  /\ pixel \in [r : RawValues, g : RawValues, b : RawValues,
                 colorMode : {"color", "bw"}]
  /\ closest = NoColor
  /\ job \in [colorMode : {pixel.colorMode},
               orientation : {"horizontal", "vertical"}]
  /\ epdX = 0
  /\ epdY = 0
  /\ binaryData = NoBuffer
  /\ ditherX \in Columns(targetW(job.orientation))
  /\ ditherY \in Rows(targetH(job.orientation))
  /\ err = NoError
  /\ diffused = {}

\* The body of the loops of lines 338-339, lines 340-394.
Dither ==
  /\ job # NoJob
  /\ closest = NoColor
  /\ LET old == [r |-> Clamp(pixel.r), g |-> Clamp(pixel.g),
                 b |-> Clamp(pixel.b)]
         newColor == findClosestColor(old.r, old.g, old.b,
                                      PaletteOf(job.colorMode))
     IN /\ closest' = newColor
        /\ err' = quantError(old, newColor)
        /\ diffused' = Distribute(ditherX, ditherY, targetW(job.orientation),
                                  targetH(job.orientation),
                                  quantError(old, newColor))
  /\ UNCHANGED <<commandChar, responseChar, imageDataChar, exchange, parser,
                 serverConnected, screen, listenerScreen, store, flow, pixel,
                 job, epdX, epdY, binaryData, paired, lister, ditherX, ditherY>>

DitherNext == Dither

DitherSpec == DitherInit /\ [][DitherNext]_vars

----------------------------------------------------------------------------
\* The paired-device list driven by its three methods.

\* The lists localStorage can hold at construction: no device or one.
StoredLists ==
  {<<>>} \cup {<<[id |-> i, name |-> n, addedAt |-> 0,
                  lastConnected |-> NeverConnected]>> :
                 i \in DeviceIds, n \in DeviceNames}

\* The constructor, lines 28-38: the list is what loadPairedDevices reads.
PairedInit ==
  /\ Unconnected
  /\ CodecIdle
  /\ ParserIdle
  /\ storage \in StoredLists
  /\ pairedDevices = storage
  /\ notified = 0
  /\ now = 1
  /\ call = NoCall
  /\ ListerIdle
  /\ DitherIdle

\* What a method of the list leaves alone.
PairedFrame ==
  UNCHANGED <<commandChar, responseChar, imageDataChar, exchange, parser,
              serverConnected, screen, listenerScreen, store, flow, codec,
              lister, dither>>

\* The method's result becomes the next state; the clock moves on.
Called(p, method, id, name) ==
  /\ pairedDevices' = p.pairedDevices
  /\ storage' = p.storage
  /\ notified' = p.notified
  /\ now' = now + 1
  /\ call' = [method |-> method, id |-> id, name |-> name]
  /\ PairedFrame

AddPairedDevice(device, ok) ==
  /\ now <= MaxCalls
  /\ Called(addPairedDevice(P, device, now, ok), "addPairedDevice",
            device.id, device.name)

RemovePairedDevice(deviceId, ok) ==
  /\ now <= MaxCalls
  /\ Called(removePairedDevice(P, deviceId, ok), "removePairedDevice",
            deviceId, "none")

UpdateLastConnected(deviceId, ok) ==
  /\ now <= MaxCalls
  /\ Called(updateLastConnected(P, deviceId, now, ok), "updateLastConnected",
            deviceId, "none")

PairedNext ==
  \/ \E i \in DeviceIds, n \in DeviceNames, ok \in BOOLEAN :
       AddPairedDevice([id |-> i, name |-> n], ok)
  \/ \E i \in DeviceIds, ok \in BOOLEAN : RemovePairedDevice(i, ok)
  \/ \E i \in DeviceIds, ok \in BOOLEAN : UpdateLastConnected(i, ok)

PairedSpec == PairedInit /\ [][PairedNext]_vars

----------------------------------------------------------------------------
\* getSettings on the payloads a device may send.

\* The values of a field of the payload.
BooleanFields ==
  {Num("0"), Num("1"), Num("2"), Str("0"), Str("1"), Str("true"), Str(""),
   Bool("true"), Bool("false"), Undefined}

IntervalFields == {Num("5"), Str("5"), Str("soon")}

CurrentFields == {Str("a.bin"), Str(""), Undefined}

\* JSON.parse returned the payload (line 341).
SettingsInit ==
  /\ Unconnected
  /\ CodecIdle
  /\ data \in [slideshow : BooleanFields, interval : IntervalFields,
               random : BooleanFields, current : CurrentFields]
  /\ deviceSettings = NoSettings
  /\ AsideIdle

\* The return statement of getSettings, lines 342-347.
Normalize ==
  /\ data # NoData
  /\ deviceSettings = NoSettings
  /\ deviceSettings' = getSettings(data)
  /\ UNCHANGED <<commandChar, responseChar, imageDataChar, exchange, aside,
                 serverConnected, screen, listenerScreen, store, flow, codec,
                 data>>

SettingsNext == Normalize

SettingsSpec == SettingsInit /\ [][SettingsNext]_vars

\* Every transport write settles, every delay elapses, every armed timer
\* fires and every ready continuation runs; the device and the callers are
\* under no obligation.
Fairness ==
  /\ WF_vars(\E i \in 1..Len(ops) : Begin(i))
  /\ WF_vars(\E i \in 1..Len(ops), ok \in BOOLEAN : CommandWriteDone(i, ok))
  /\ WF_vars(\E i \in 1..Len(ops), ok \in BOOLEAN : ChunkWriteDone(i, ok))
  /\ WF_vars(\E i \in 1..Len(ops) : BackoffDone(i))
  /\ WF_vars(\E i \in 1..Len(ops) : PacingDone(i))
  /\ WF_vars(\E i \in 1..Len(ops) : SettleDelayDone(i))
  /\ WF_vars(TimerFire)

FairSpec == Spec /\ Fairness

----------------------------------------------------------------------------
\* Properties.

OpIds == 1..Len(ops)

Uploads == {u \in OpIds : ops[u].kind = "upload"}

\* The attempts of op i that reached the transport.
Written(i) == {k \in EntriesOf(sent, i) : sent[k].st # "threw"}

\* The index in sent of op i's attempts to send command code.
CommandEntries(i, code) ==
  {k \in EntriesOf(sent, i) : sent[k].chan = "command" /\ sent[k].code = code}

\* C1: at most one queued operation executes at any time, and an operation
\* has started only if every operation submitted before it has settled (so
\* operations start in submission order).
C1_SerializedFifo ==
  /\ Cardinality({i \in OpIds : ops[i].status = "running"}) <= 1
  /\ \A i, j \in OpIds :
       (i < j /\ ops[j].status # "queued") => ops[i].status \in Settled

\* Two callers submitted concurrently; the first, an upload, is executing and
\* the second is held back.
C1_Witness ==
  /\ Len(ops) = 2
  /\ ops[1].kind = "upload" /\ ops[1].status = "running"
  /\ ops[1].pc = "chunkWriting"
  /\ ops[2].status = "queued" /\ ops[2].behind

\* C2: while an upload that has written START_UPLOAD has not settled, every
\* frame written after its START_UPLOAD is a frame of that upload.
C2_UploadIsOneQueueEntry ==
  \A u \in Uploads :
    ops[u].status = "running" =>
      \A a \in CommandEntries(u, CMD_START_UPLOAD) \cap Written(u) :
        \A k \in (a + 1)..Len(sent) : sent[k].op = u

\* An upload wrote START_UPLOAD, a first chunk and is past it, while another
\* caller's command waits in the queue.
C2_Witness ==
  \E u \in Uploads : \E j \in OpIds :
    /\ ops[u].status = "running" /\ ops[u].offset > 0
    /\ ops[j].kind = "command" /\ ops[j].status = "queued"
    /\ CommandEntries(u, CMD_START_UPLOAD) \cap Written(u) # {}

\* The armed timers, as a set.
Armed == {timers[k] : k \in 1..Len(timers)}

\* The device has answered command c.
Answered(c) ==
  /\ \E k \in 1..Len(sent) : sent[k].cmd = c /\ sent[k].st = "ok"
  /\ c \notin devicePending

\* C3: a call of one of two concurrently issued commands is resolved only by
\* the device's reply to its own command.
C3_ResponseAttributed ==
  \A c \in 1..Len(cmds) :
    LET i == cmds[c].owner IN
    ( /\ cmds[c].promise = "resolved"
      /\ ops[i].kind = "command"
      /\ \E j \in OpIds \ {i} :
           ops[j].kind = "command" /\ (ops[i].behind \/ ops[j].behind) )
    => cmds[c].value.replyTo = c

\* C4: a command whose write was acknowledged and whose timer has fired
\* without a response has failed with the timeout and no longer waits; and
\* a command issued after a timed-out one and answered by the device before
\* its own timer fires is resolved, by that answer.
C4_TimeoutThenNextSucceeds ==
  /\ \A c \in 1..Len(cmds) :
       ( /\ ops[cmds[c].owner].kind = "command"
         /\ \E k \in 1..Len(sent) : sent[k].cmd = c /\ sent[k].st = "ok"
         /\ c \notin Armed
         /\ cmds[c].promise # "resolved" )
       => /\ cmds[c].promise = "rejected"
          /\ ~Awaits(S, cmds[c].owner, c)
  /\ \A c, d \in 1..Len(cmds) :
       ( /\ c < d
         /\ ops[cmds[c].owner].kind = "command"
         /\ ops[cmds[d].owner].kind = "command"
         /\ cmds[c].promise = "rejected"
         /\ ops[cmds[c].owner].result = "Timeout"
         /\ Answered(d) /\ d \in Armed )
       => /\ cmds[d].promise = "resolved"
          /\ cmds[d].value.replyTo = d
          /\ ~Awaits(S, cmds[d].owner, d)

\* C5: under Fairness every operation submitted to the queue eventually
\* settles.
C5_QueueNeverHangs ==
  \A i \in 1..MaxOps :
    (Len(ops) >= i) ~> (Len(ops) >= i /\ ops[i].status \in Settled)

\* C6: under Fairness, once an operation has rejected, the operation queued
\* behind it eventually settles.
C6_FailureIsolated ==
  \A j \in 2..MaxOps :
    (Len(ops) >= j /\ ops[j - 1].status = "rejected")
      ~> (Len(ops) >= j /\ ops[j].status \in Settled)

Failed == {"failed", "threw"}

\* The failed attempts of upload u to write the chunk at offset o.
FailedChunk(u, o) ==
  {k \in EntriesOf(sent, u) :
     sent[k].chan = "data" /\ sent[k].offset = o /\ sent[k].st \in Failed}

\* The offsets at which upload u attempted a chunk write.
ChunkOffsets(u) ==
  {sent[k].offset : k \in {n \in EntriesOf(sent, u) : sent[n].chan = "data"}}

\* The attempt of op u that follows its attempt k (0 if none).
NextEntry(u, k) ==
  LET A == {n \in EntriesOf(sent, u) : n > k}
  IN IF A = {} THEN 0 ELSE CHOOSE n \in A : \A m \in A : n <= m

\* The attempt of op u that precedes its attempt k (0 if none).
PrevEntry(u, k) ==
  LET B == {n \in EntriesOf(sent, u) : n < k}
  IN IF B = {} THEN 0 ELSE CHOOSE n \in B : \A m \in B : m <= n

\* The error with which attempt p of an upload failed, as the code saw it.
ErrorOf(p) ==
  IF sent[p].chan = "data"
  THEN IF sent[p].st = "failed" THEN "WriteError" ELSE "TypeError"
  ELSE CASE sent[p].st = "threw" -> "NotConnected"
         [] sent[p].st = "failed" -> "WriteError"
         [] cmds[sent[p].cmd].promise = "rejected" -> "Timeout"
         [] OTHER -> "FailedToStart"

RetriedOk(u) ==
  \E k \in EntriesOf(sent, u) :
    /\ sent[k].chan = "data" /\ sent[k].st \in Failed
    /\ NextEntry(u, k) # 0
    /\ sent[NextEntry(u, k)].chan = "data"
    /\ sent[NextEntry(u, k)].st = "ok"

\* No chunk of upload u has used up its retries.
NotExhausted(u) ==
  \A o \in ChunkOffsets(u) : Cardinality(FailedChunk(u, o)) < MAX_RETRIES

\* C8: a failed chunk write that leaves retries is followed by a write of the
\* same chunk; an acknowledged chunk is followed by the next chunk or, after
\* the last one, by FINISH_UPLOAD; and an upload that retried a chunk with
\* success and exhausted no chunk sends CANCEL_UPLOAD only after a
\* FINISH_UPLOAD that failed, and resolves with the answer to FINISH_UPLOAD.
C8_RetrySameChunkThenFinish ==
  \A u \in Uploads :
    /\ \A k \in EntriesOf(sent, u) :
         LET n == NextEntry(u, k) IN
         (sent[k].chan = "data" /\ n # 0) =>
           CASE sent[k].st \in Failed
                  /\ Cardinality({m \in FailedChunk(u, sent[k].offset) : m <= k})
                       < MAX_RETRIES ->
                  /\ sent[n].chan = "data"
                  /\ sent[n].offset = sent[k].offset
                  /\ sent[n].len = sent[k].len
             [] sent[k].st \in Failed -> sent[n].code = CMD_CANCEL_UPLOAD
             [] sent[k].offset + sent[k].len < ops[u].len ->
                  /\ sent[n].chan = "data"
                  /\ sent[n].offset = sent[k].offset + sent[k].len
             [] OTHER -> sent[n].code = CMD_FINISH_UPLOAD
    /\ (RetriedOk(u) /\ NotExhausted(u)) =>
         /\ \A k \in CommandEntries(u, CMD_CANCEL_UPLOAD) :
              /\ PrevEntry(u, k) \in CommandEntries(u, CMD_FINISH_UPLOAD)
              /\ ErrorOf(PrevEntry(u, k)) # "FailedToStart"
         /\ \A k \in CommandEntries(u, CMD_FINISH_UPLOAD) :
              (sent[k].st = "ok" /\ cmds[sent[k].cmd].promise = "resolved") =>
                /\ ops[u].status = "resolved"
                /\ ops[u].result =
                     (IF cmds[sent[k].cmd].value.code = RESP_OK
                      THEN "true" ELSE "false")
                /\ CommandEntries(u, CMD_CANCEL_UPLOAD) = {}

\* A two-chunk upload retried a chunk with success, wrote both chunks and
\* resolved true without any CANCEL_UPLOAD.
C8_Witness ==
  \E u \in Uploads :
    /\ RetriedOk(u)
    /\ ops[u].len > CHUNK_SIZE
    /\ ops[u].status = "resolved" /\ ops[u].result = "true"
    /\ CommandEntries(u, CMD_CANCEL_UPLOAD) = {}

\* C9: an upload that wrote START_UPLOAD and failed (rejected, or resolved
\* false) has attempted a CANCEL_UPLOAD.
C9_FailedUploadSendsCancel ==
  \A u \in Uploads :
    ( /\ CommandEntries(u, CMD_START_UPLOAD) \cap Written(u) # {}
      /\ \/ ops[u].status = "rejected"
         \/ ops[u].status = "resolved" /\ ops[u].result = "false" )
    => CommandEntries(u, CMD_CANCEL_UPLOAD) # {}

\* The cleanup CANCEL_UPLOAD attempt k failed: it threw, its write failed or
\* its exchange timed out.
CancelFailed(k) ==
  \/ sent[k].st \in Failed
  \/ sent[k].st = "ok" /\ cmds[sent[k].cmd].promise = "rejected"

\* C10: when the cleanup CANCEL_UPLOAD of an upload has failed, the upload
\* has settled, rejected with the error that caused the cleanup.
C10_CleanupFailureSwallowed ==
  \A u \in Uploads : \A k \in CommandEntries(u, CMD_CANCEL_UPLOAD) :
    CancelFailed(k) =>
      /\ ops[u].status = "rejected"
      /\ ops[u].result = ErrorOf(PrevEntry(u, k))

\* START_UPLOAD was answered with an error code and the cleanup
\* CANCEL_UPLOAD failed to write: the upload rejected with the start failure.
C10_Witness ==
  \E u \in Uploads : \E k \in CommandEntries(u, CMD_CANCEL_UPLOAD) :
    /\ sent[k].st = "failed"
    /\ ops[u].status = "rejected" /\ ops[u].result = "FailedToStart"

\* The chunk writes attempted by upload u.
DataEntries(u) == {k \in EntriesOf(sent, u) : sent[k].chan = "data"}

\* No write of upload u, of a command or of a chunk, has failed.
NoWriteFailure(u) == \A k \in EntriesOf(sent, u) : sent[k].st \notin Failed

\* ceil(n / CHUNK_SIZE).
Chunks(n) == (n + CHUNK_SIZE - 1) \div CHUNK_SIZE

\* Upload u has left its chunk loop.
PastLoop(u) ==
  \/ ops[u].pc = "settleDelay"
  \/ CommandEntries(u, CMD_FINISH_UPLOAD) # {}

\* C11: in an upload of N bytes without write failure, the k-th chunk written
\* starts at offset 256*(k-1) and is 256 bytes long, except chunk ceil(N/256),
\* which is N - 256*(ceil(N/256)-1) bytes long; no further chunk is written;
\* and once the loop is left exactly ceil(N/256) chunks were written and
\* acknowledged, the last of them ending at byte N (so the chunks, in order,
\* are the payload).
C11_ChunkingExact ==
  \A u \in Uploads :
    NoWriteFailure(u) =>
      LET D == DataEntries(u)
          N == ops[u].len
      IN /\ Cardinality(D) <= Chunks(N)
         /\ \A k \in D :
              LET r == Cardinality({m \in D : m < k}) IN
              /\ sent[k].offset = CHUNK_SIZE * r
              /\ sent[k].len = IF r + 1 < Chunks(N) THEN CHUNK_SIZE
                               ELSE N - CHUNK_SIZE * (Chunks(N) - 1)
              /\ sent[k].len > 0
         /\ PastLoop(u) =>
              /\ Cardinality(D) = Chunks(N)
              /\ \A k \in D : sent[k].st = "ok"
              /\ N > 0 => \E k \in D : sent[k].offset + sent[k].len = N

\* An upload of 2600 bytes resolved true after eleven acknowledged chunks, the
\* last of 40 bytes.
C11_Witness ==
  \E u \in Uploads :
    /\ ops[u].len = 10 * CHUNK_SIZE + 40
    /\ ops[u].status = "resolved" /\ ops[u].result = "true"
    /\ Cardinality({k \in DataEntries(u) : sent[k].st = "ok"}) = 11
    /\ \E k \in DataEntries(u) :
         sent[k].offset = 10 * CHUNK_SIZE /\ sent[k].len = 40

\* A command exchange is pending: a resolver is installed and its promise has
\* not settled.
PendingExchange ==
  IF responseResolver = 0 THEN FALSE
  ELSE cmds[responseResolver].promise = "pending"

\* C12: a step in which the transport signals a disconnection (the
\* gattserverdisconnected event, or disconnect()) while a command exchange
\* is pending, its frame written and its caller waiting for the response,
\* leaves that exchange failed.
C12_DisconnectFailsPending ==
  [][ ( /\ PendingExchange
        /\ Awaits(S, cmds[responseResolver].owner, responseResolver)
        /\ \/ serverConnected /\ ~serverConnected'
           \/ commandChar /\ ~commandChar' )
      => cmds'[responseResolver].promise = "rejected" ]_vars

\* The device-derived part of a store state is reset.
DeviceStateReset(st) ==
  st.deviceInfo = "null" /\ st.settings = "null" /\ st.images = <<>>

\* C13: every step in which a disconnection is signalled (the
\* gattserverdisconnected event, or disconnect()) leaves device info null,
\* settings null and the image list empty, whatever the screen.
C13_DisconnectionResetsState ==
  [][ ( \/ serverConnected /\ ~serverConnected'
        \/ commandChar /\ ~commandChar' )
      => DeviceStateReset(store') ]_vars

Cancels == {i \in OpIds : ops[i].kind = "cancel"}

\* C14: a cancelUpload call has attempted its CANCEL_UPLOAD only after every
\* operation submitted before it settled; and when it has resolved, the
\* promise of its command was resolved with a frame and the result is true
\* exactly when the code of that frame is OK.
C14_CancelUploadQueued ==
  \A i \in Cancels :
    /\ EntriesOf(sent, i) # {} =>
         \A j \in OpIds : j < i => ops[j].status \in Settled
    /\ ops[i].status = "resolved" =>
         /\ cmds[ops[i].cur].code = CMD_CANCEL_UPLOAD
         /\ cmds[ops[i].cur].promise = "resolved"
         /\ ops[i].result \in {"true", "false"}
         /\ ops[i].result = "true" <=> cmds[ops[i].cur].value.code = RESP_OK

\* cancelUpload was invoked while an upload was executing, wrote its frame
\* after the upload settled and resolved true on the device's OK.
C14_Witness ==
  \E i \in Cancels : \E u \in Uploads :
    /\ u < i /\ ops[i].behind
    /\ ops[u].status \in Settled
    /\ ops[i].status = "resolved" /\ ops[i].result = "true"
    /\ cmds[ops[i].cur].value = Frame(RESP_OK, ops[i].cur)

\* The START_UPLOAD attempts of upload u whose call returned a response with
\* a code other than OK.
StartRefused(u) ==
  {k \in CommandEntries(u, CMD_START_UPLOAD) :
     /\ sent[k].st = "ok"
     /\ cmds[sent[k].cmd].promise = "resolved"
     /\ cmds[sent[k].cmd].value.code # RESP_OK}

C16_SlotEmptyWhenSending ==
  [][ Len(cmds') > Len(cmds) => responseResolver = 0 ]_vars

\* The square of the Euclidean distance, in units of 1/Scale^2, between the
\* pixel p and the palette entry e.
SquaredDistance(p, e) ==
  (p.r - Scale * e.r) * (p.r - Scale * e.r)
  + (p.g - Scale * e.g) * (p.g - Scale * e.g)
  + (p.b - Scale * e.b) * (p.b - Scale * e.b)

\* C20: the entry findClosestColor returns is an entry of the palette at
\* least as close to the pixel as every entry, strictly closer than every
\* entry before it in palette order, and the entry itself when the pixel is
\* exactly a palette colour.
C20_NearestFirstOnTie ==
  closest # NoColor =>
    LET palette == PaletteOf(pixel.colorMode) IN
    /\ \E k \in 1..Len(palette) :
         /\ closest = palette[k]
         /\ \A j \in 1..Len(palette) :
              SquaredDistance(pixel, closest) <= SquaredDistance(pixel, palette[j])
         /\ \A j \in 1..(k - 1) :
              SquaredDistance(pixel, closest) < SquaredDistance(pixel, palette[j])
    /\ \A j \in 1..Len(palette) :
         SquaredDistance(pixel, palette[j]) = 0 => closest = palette[j]

\* The pixel (19, 133, 255) is equally far from white and from red, and
\* farther from yellow and black: white, the first of the two, is returned.
C20_Witness ==
  /\ pixel = [r |-> 19 * Scale, g |-> 133 * Scale, b |-> 255 * Scale,
              colorMode |-> "color"]
  /\ SquaredDistance(pixel, PALETTE_COLOR[1]) = SquaredDistance(pixel, PALETTE_COLOR[3])
  /\ closest = PALETTE_COLOR[1]

\* processImage has allocated its output buffer.
Allocated == job # NoJob

\* The statement of the specification: the packed buffer is 48000 bytes long.
C17_BufferIs48000 == Allocated => binaryData.length = 48000

\* C17: the packed buffer of processImage is exactly 96000 bytes long, for
\* either orientation and either colour mode.
C17_BufferIs96000 == Allocated => binaryData.length = 96000

\* The first device row of a vertical black/white image was packed, into the
\* first 200 elements of a buffer of 96000 bytes.
C17_Witness ==
  /\ job = [colorMode |-> "bw", orientation |-> "vertical"]
  /\ epdY = 1
  /\ epdX = 0
  /\ binaryData.length = 96000
  /\ binaryData.index = (EPD_WIDTH \div 4) - 1

\* The index of the next device pixel the loop packs.
NextPixel == epdY * EPD_WIDTH + epdX

\* The 2-bit code of the working-grid cell that maps to device pixel p:
\* (x, y) itself, or (480-1-y, x) of the 480-wide grid when vertical.
CodeFor(p) ==
  LET x == p % EPD_WIDTH
      y == p \div EPD_WIDTH
  IN IF job.orientation = "vertical"
     THEN ditheredColors(job.colorMode, job.orientation,
                         x * EPD_HEIGHT + (EPD_HEIGHT - 1 - y)).value
     ELSE ditheredColors(job.colorMode, job.orientation, y * EPD_WIDTH + x).value

\* (byte >> ((3 - p mod 4) * 2)) & 3.
Extract(byte, p) == (byte \div (2 ^ ((3 - (p % 4)) * 2))) % 4

\* C18: no write of the loop falls into the finished part of the buffer,
\* the pixels packed so far fill the elements up to p div 4 of the last one,
\* and from the element last written every pixel p packed into it is
\* extracted, by (byte >> ((3 - p mod 4)*2)) & 3, as the code of the
\* working-grid cell that maps to it.  As every element is final once the
\* loop has left it, this is the round trip for the whole buffer.
C18_PackRoundTrip ==
  (Allocated /\ NextPixel > 0) =>
    /\ ~binaryData.revisited
    /\ binaryData.index = (NextPixel - 1) \div 4
    /\ \A p \in (4 * binaryData.index)..(NextPixel - 1) :
         Extract(binaryData.byte, p) = CodeFor(p)

\* The element holding four different codes, white, yellow, red, black, of a
\* vertical colour image was packed as 0b00011011.
C18_Witness ==
  /\ job = [colorMode |-> "color", orientation |-> "vertical"]
  /\ NextPixel % 4 = 0
  /\ NextPixel > 0
  /\ binaryData.byte = 27
  /\ \A k \in 0..3 : CodeFor(4 * binaryData.index + k) = k

\* The device pixel that reads the working-grid cell (x, y) of a vertical
\* image.
DeviceOf(cell) == [x |-> cell.y, y |-> EPD_HEIGHT - 1 - cell.x]

\* C19: for a vertical image the cell the loop reads for device pixel (x, y)
\* is (480-1-y, x), lies inside the 480x800 working grid and is read by no
\* other device pixel (it maps back to (x, y)); and every cell of the working
\* grid, here the one with the running index of the loop, is read by a pixel
\* inside the 800x480 device raster.
C19_VerticalBijection ==
  (job.orientation = "vertical" /\ epdY < EPD_HEIGHT) =>
    LET src == SourceCell(TRUE, epdX, epdY)
        cell == [x |-> NextPixel % EPD_HEIGHT, y |-> NextPixel \div EPD_HEIGHT]
        dev == DeviceOf(cell)
    IN /\ src = [x |-> EPD_HEIGHT - 1 - epdY, y |-> epdX]
       /\ src.x \in 0..(EPD_HEIGHT - 1)
       /\ src.y \in 0..(EPD_WIDTH - 1)
       /\ DeviceOf(src) = [x |-> epdX, y |-> epdY]
       /\ cell.x \in 0..(EPD_HEIGHT - 1) /\ cell.y \in 0..(EPD_WIDTH - 1)
       /\ dev.x \in 0..(EPD_WIDTH - 1)
       /\ dev.y \in 0..(EPD_HEIGHT - 1)
       /\ SourceCell(TRUE, dev.x, dev.y) = cell

\* The loop packs the device pixel (799, 0) of a vertical image: it reads the
\* far corner, (479, 799), of the working grid.
C19_Witness ==
  /\ job.orientation = "vertical"
  /\ epdX = EPD_WIDTH - 1
  /\ epdY = 0
  /\ SourceCell(TRUE, epdX, epdY) = [x |-> EPD_HEIGHT - 1, y |-> EPD_WIDTH - 1]

\* The codes of palette p, and its entries of colour (r, g, b).
CodesOf(p) == {p[k].value : k \in 1..Len(p)}

EntriesOfColour(p, r, g, b) ==
  {k \in 1..Len(p) : p[k].r = r /\ p[k].g = g /\ p[k].b = b}

\* The palette of the pixel being quantized has unique codes, White with code
\* 0 and Black with the highest code.
UniqueWhiteFirstBlackLast(p) ==
  /\ Cardinality(CodesOf(p)) = Len(p)
  /\ EntriesOfColour(p, 255, 255, 255) # {}
  /\ \A k \in EntriesOfColour(p, 255, 255, 255) : p[k].value = 0
  /\ EntriesOfColour(p, 0, 0, 0) # {}
  /\ \A k \in EntriesOfColour(p, 0, 0, 0) : \A c \in CodesOf(p) : c <= p[k].value

\* The statement of the specification: the codes of the palette in use are
\* unique and contiguous from 0, White has code 0 and Black the highest code.
C21_CodesContiguous ==
  pixel # NoPixel =>
    LET p == PaletteOf(pixel.colorMode) IN
    /\ UniqueWhiteFirstBlackLast(p)
    /\ CodesOf(p) = 0..(Len(p) - 1)

\* C21: the codes of the palette in use are unique 2-bit values, White has
\* code 0 and Black has the highest code of the palette, 3; the codes of the
\* 4-colour palette are contiguous from 0 (0, 1, 2, 3), those of the
\* black/white palette are 0 and 3.
C21_CodesUniqueWhiteZeroBlackThree ==
  pixel # NoPixel =>
    LET p == PaletteOf(pixel.colorMode) IN
    /\ UniqueWhiteFirstBlackLast(p)
    /\ CodesOf(p) = IF pixel.colorMode = "color" THEN 0..3 ELSE {0, 3}

\* A black pixel was quantized against the black/white palette to the entry
\* Black, whose code is 3.
C21_Witness ==
  /\ pixel = [r |-> 0, g |-> 0, b |-> 0, colorMode |-> "bw"]
  /\ closest = [r |-> 0, g |-> 0, b |-> 0, value |-> 3]

\* The command frames whose transport write failed.
FailedCommandWrites ==
  {k \in 1..Len(sent) : sent[k].chan = "command" /\ sent[k].st = "failed"}

\* C22: when the write of a command frame has failed, the operation has sent
\* that command exactly once and no longer waits for it; a one-command call
\* (control command, cancelUpload) has rejected with the write error; an
\* upload whose START_UPLOAD or FINISH_UPLOAD failed to write has gone on to
\* its cleanup CANCEL_UPLOAD with the write error as its error, and can only
\* reject with it; an upload whose cleanup CANCEL_UPLOAD failed to write has
\* rejected.
C22_CommandWriteFailureNotRetried ==
  \A k \in FailedCommandWrites :
    LET i == sent[k].op
        n == NextEntry(i, k)
    IN /\ Cardinality(CommandEntries(i, sent[k].code)) = 1
       /\ ~(ops[i].cur = sent[k].cmd /\ ops[i].pc \in {"writing", "awaiting"})
       /\ IF ops[i].kind # "upload"
          THEN /\ ops[i].status = "rejected"
               /\ ops[i].result = "WriteError"
               /\ n = 0
          ELSE IF sent[k].code = CMD_CANCEL_UPLOAD
          THEN ops[i].status = "rejected" /\ n = 0
          ELSE /\ ops[i].error = "WriteError"
               /\ n # 0
               /\ sent[n].code = CMD_CANCEL_UPLOAD
               /\ ops[i].status # "resolved"
               /\ ops[i].status = "rejected" => ops[i].result = "WriteError"

\* The FINISH_UPLOAD of an upload whose chunks were all acknowledged failed to
\* write: the upload sent one CANCEL_UPLOAD and rejected with the write
\* error; and a control command failed to write and rejected with it.
C22_Witness ==
  /\ \E k \in FailedCommandWrites :
       /\ sent[k].code = CMD_FINISH_UPLOAD
       /\ ops[sent[k].op].len > 0
       /\ ops[sent[k].op].status = "rejected"
       /\ ops[sent[k].op].result = "WriteError"
  /\ \E k \in FailedCommandWrites :
       /\ sent[k].code = CMD_NEXT_IMAGE
       /\ ops[sent[k].op].status = "rejected"

\* The calls of getInfo, getImages and getSettings.
QueryOps == {i \in OpIds : ops[i].kind \in Queries}

\* The commands of op i whose response promise was resolved with a frame of a
\* code other than code.
ResolvedOtherThan(i, code) ==
  {c \in 1..Len(cmds) :
     /\ cmds[c].owner = i
     /\ cmds[c].promise = "resolved"
     /\ cmds[c].value.code # code}

\* C23: a getInfo, getImages or getSettings call that received (its write
\* acknowledged) a response of a code other than INFO, IMAGE_LIST or SETTINGS
\* respectively has rejected with 'Unexpected response', a call that resolved
\* got its own code, and no such call writes more than one frame.
C23_UnexpectedResponseFails ==
  \A i \in QueryOps :
    LET code == CASE ops[i].kind = "getInfo" -> RESP_INFO
                  [] ops[i].kind = "getImages" -> RESP_IMAGE_LIST
                  [] OTHER -> RESP_SETTINGS
    IN /\ Cardinality(EntriesOf(sent, i)) <= 1
       /\ (ResolvedOtherThan(i, code) # {} /\ ops[i].pc # "writing") =>
            /\ ops[i].status = "rejected"
            /\ ops[i].result = "UnexpectedResponse"
            /\ Cardinality(EntriesOf(sent, i)) = 1
       /\ ops[i].status = "resolved" =>
            /\ cmds[ops[i].cur].promise = "resolved"
            /\ cmds[ops[i].cur].value.code = code

\* getSettings was answered with an INFO frame and rejected after its one
\* frame.
C23_Witness ==
  \E i \in QueryOps :
    /\ ops[i].kind = "getSettings"
    /\ ops[i].status = "rejected"
    /\ ops[i].result = "UnexpectedResponse"
    /\ cmds[ops[i].cur].value = Frame(RESP_INFO, ops[i].cur)
    /\ Cardinality(EntriesOf(sent, i)) = 1

\* The step handles a notification of zero length.
EmptyFrameStep ==
  /\ Len(inbound') = Len(inbound) + 1
  /\ inbound'[Len(inbound')].byteLength = 0

\* C24: a step that handles a frame of zero length changes nothing of the
\* exchange, the queue and the upload (resolver, promises, timers, operations,
\* progress reports); and a response promise is settled only by a step that
\* handles a non-empty frame, which resolves it with that frame, or by a step
\* in which a timer fires, which rejects it.
C24_EmptyFrameIgnored ==
  [][ /\ EmptyFrameStep =>
           UNCHANGED <<responseResolver, progressCallback, operationQueue,
                       isOperationInProgress, ops, cmds, timers, devicePending,
                       sent, reports, uploadError>>
      /\ \A c \in 1..Len(cmds) :
           (cmds[c].promise = "pending" /\ cmds'[c].promise # "pending") =>
             \/ /\ cmds'[c].promise = "resolved"
                /\ Len(inbound') = Len(inbound) + 1
                /\ inbound'[Len(inbound')].byteLength > 0
                /\ cmds'[c].value.byteLength = inbound'[Len(inbound')].byteLength
             \/ /\ cmds'[c].promise = "rejected"
                /\ timers # <<>>
                /\ SubSeq(timers', 1, Len(timers) - 1) = Tail(timers) ]_vars

\* getInfo was waiting for its response when an empty frame arrived, kept
\* waiting, and was then resolved by the device's INFO frame.
C24_Witness ==
  /\ Len(inbound) = 2
  /\ inbound[1] = [byteLength |-> 0, resolver |-> 1]
  /\ inbound[2] = [byteLength |-> 1, resolver |-> 1]
  /\ ops[1].kind = "getInfo"
  /\ ops[1].status = "resolved"
  /\ cmds[1].value = Frame(RESP_INFO, 1)

\* Before its attempt k, upload u wrote START_UPLOAD and its call returned a
\* response of code OK.
StartedBefore(u, k) ==
  \E a \in CommandEntries(u, CMD_START_UPLOAD) :
    /\ a < k
    /\ sent[a].st = "ok"
    /\ cmds[sent[a].cmd].promise = "resolved"
    /\ cmds[sent[a].cmd].value.code = RESP_OK

\* Before its attempt k, upload u had the chunk at offset o acknowledged.
AckedBefore(u, k, o) ==
  \E m \in DataEntries(u) :
    /\ m < k
    /\ sent[m].st = "ok"
    /\ sent[m].offset = o
    /\ sent[m].len = IF ops[u].len - o < CHUNK_SIZE THEN ops[u].len - o
                     ELSE CHUNK_SIZE

\* C25: every chunk write of an upload comes after a START_UPLOAD answered
\* OK, after the acknowledgment of the chunk before it (none of the upload's
\* earlier writes is still pending), and before any FINISH_UPLOAD; and every
\* FINISH_UPLOAD comes after a START_UPLOAD answered OK and after the
\* acknowledgment of every chunk of the payload.
C25_StartTransferFinish ==
  \A u \in Uploads :
    /\ \A k \in DataEntries(u) :
         /\ StartedBefore(u, k)
         /\ \A m \in EntriesOf(sent, u) : m < k => sent[m].st # "pending"
         /\ sent[k].offset > 0 =>
              AckedBefore(u, k, sent[k].offset - CHUNK_SIZE)
         /\ \A f \in CommandEntries(u, CMD_FINISH_UPLOAD) : k < f
    /\ \A f \in CommandEntries(u, CMD_FINISH_UPLOAD) :
         /\ StartedBefore(u, f)
         /\ \A j \in 0..(Chunks(ops[u].len) - 1) :
              AckedBefore(u, f, j * CHUNK_SIZE)

\* An upload of two chunks, of which the first had to be retried, is writing
\* FINISH_UPLOAD after both were acknowledged.
C25_Witness ==
  \E u \in Uploads : \E f \in CommandEntries(u, CMD_FINISH_UPLOAD) :
    /\ sent[f].st = "pending"
    /\ FailedChunk(u, 0) # {}
    /\ AckedBefore(u, f, 0)
    /\ AckedBefore(u, f, CHUNK_SIZE)

\* C26: an upload waits for a retry only after the 1st or 2nd failed write
\* of the chunk at its offset, and then for 300 ms times the number of failed
\* writes of that chunk; a failed write with retries left is followed by a
\* write of the same chunk; no chunk is written more than 3 times in
\* failure, and after the 3rd failure the upload does not wait and writes no
\* chunk any more (its next frame is the cleanup CANCEL_UPLOAD).
C26_LinearBackoffThreeAttempts ==
  \A u \in Uploads :
    /\ ops[u].pc = "backoff" =>
         LET n == Cardinality(FailedChunk(u, ops[u].offset)) IN
         /\ n \in {1, 2}
         /\ ops[u].waitTime = 300 * n
         /\ LastEntry(sent, u) \in FailedChunk(u, ops[u].offset)
    /\ \A o \in ChunkOffsets(u) :
         LET F == FailedChunk(u, o) IN
         /\ Cardinality(F) <= 3
         /\ \A k \in F :
              LET n == NextEntry(u, k) IN
              IF Cardinality({m \in F : m <= k}) < 3
              THEN n # 0 =>
                     /\ sent[n].chan = "data"
                     /\ sent[n].offset = o
                     /\ sent[n].len = sent[k].len
              ELSE /\ ops[u].pc # "backoff"
                   /\ n # 0
                   /\ sent[n].code = CMD_CANCEL_UPLOAD
                   /\ \A m \in DataEntries(u) : m < n

\* The second chunk of an upload failed twice: the upload waits 600 ms
\* before its third attempt.
C26_Witness ==
  \E u \in Uploads :
    /\ ops[u].pc = "backoff"
    /\ ops[u].offset = CHUNK_SIZE
    /\ ops[u].waitTime = 600
    /\ Cardinality(FailedChunk(u, CHUNK_SIZE)) = 2

\* The invocations of the progress callback of upload u, and the chunk
\* writes of u that were acknowledged.
ReportsOf(u) == {r \in 1..Len(reports) : reports[r].op = u}

AckedChunks(u) == {k \in DataEntries(u) : sent[k].st = "ok"}

\* C27: the progress callback of an upload was invoked once per acknowledged
\* chunk; its n-th invocation passed the end of the n-th acknowledged chunk
\* (the cumulative bytes sent) and the payload length; the sent values do not
\* decrease; and once the chunk loop is left the last one is the payload
\* length.
C27_ProgressCumulative ==
  \A u \in Uploads :
    LET R == ReportsOf(u)
        A == AckedChunks(u)
    IN /\ Cardinality(R) = Cardinality(A)
       /\ \A r \in R :
            LET n == Cardinality({q \in R : q <= r}) IN
            /\ reports[r].total = ops[u].len
            /\ \E k \in A :
                 /\ Cardinality({m \in A : m <= k}) = n
                 /\ reports[r].sent = sent[k].offset + sent[k].len
            /\ \A q \in R : q < r => reports[q].sent <= reports[r].sent
       /\ (PastLoop(u) /\ ops[u].len > 0) =>
            /\ R # {}
            /\ \A r \in R : (\A q \in R : q <= r) =>
                 reports[r].sent = ops[u].len

\* The bytes of upload u acknowledged so far: the end of its last
\* acknowledged chunk.
AckedBytes(u) ==
  IF AckedChunks(u) = {} THEN 0
  ELSE LET k == CHOOSE k \in AckedChunks(u) : \A m \in AckedChunks(u) : m <= k
       IN sent[k].offset + sent[k].len

\* C28: the progress recorded with the error of a failed upload is a
\* percentage between 0 and 100, round(100 * acknowledged bytes / payload
\* length), and 0 when nothing was acknowledged.
C28_ErrorProgressIsPercentage ==
  uploadError # NoUploadError =>
    /\ uploadError.progress \in 0..100
    /\ \A u \in Uploads :
         uploadError.progress =
           IF AckedBytes(u) = 0 THEN 0
           ELSE (200 * AckedBytes(u) + ops[u].len) \div (2 * ops[u].len)

\* C29: isBusy() is true exactly when some queued operation is executing
\* (started and not settled); so it is false when every submitted operation
\* has settled, resolved or rejected, and while operations are only queued.
C29_BusyIffExecuting ==
  isBusy(S) <=> \E i \in OpIds : ops[i].status = "running"

\* Two operations were submitted and both settled, the last one rejected:
\* isBusy() is false.
C29_Witness ==
  /\ Len(ops) = 2
  /\ ops[1].status = "resolved"
  /\ ops[2].status = "rejected"
  /\ ~isBusy(S)

\* getSettings has returned.
Normalized == data # NoData /\ deviceSettings # NoSettings

\* C30: the slideshow field getSettings returns is true exactly when the
\* received value is the number 1 or the string '1', and likewise random;
\* it is false for 0, '0', 2, 'true', true, false, '' and a missing field.
C30_BooleansNormalized ==
  Normalized =>
    /\ deviceSettings.slideshow <=>
         data.slideshow \in {[t |-> "number", v |-> "1"],
                             [t |-> "string", v |-> "1"]}
    /\ deviceSettings.random <=>
         data.random \in {[t |-> "number", v |-> "1"],
                          [t |-> "string", v |-> "1"]}

\* A payload with slideshow '1' (a string) and random true (a boolean) was
\* normalised to slideshow true and random false.
C30_Witness ==
  /\ data.slideshow = Str("1")
  /\ data.random = Bool("true")
  /\ deviceSettings.slideshow
  /\ ~deviceSettings.random
  /\ deviceSettings.interval = 5

\* The step in which the oldest armed timer fires.
TimerStep ==
  /\ timers # <<>>
  /\ timers' = <<>> \/ Head(timers') # Head(timers)

\* C34: a step in which the timer of a command fires after that command was
\* answered, while the exchange of another command is pending, leaves that
\* exchange as it is: its resolver installed and its promise pending.
C34_TimerTouchesOwnExchangeOnly ==
  [][ ( /\ TimerStep
        /\ cmds[Head(timers)].promise = "resolved"
        /\ responseResolver # 0
        /\ responseResolver # Head(timers)
        /\ cmds[responseResolver].promise = "pending" )
      => /\ responseResolver' = responseResolver
         /\ cmds'[responseResolver].promise = "pending" ]_vars

\* C35: no response promise is resolved with the device's answer to an
\* earlier command (a frame that arrived after its own command timed out or
\* was otherwise over).
C35_LateResponseDiscarded ==
  \A d \in 1..Len(cmds) :
    cmds[d].promise = "resolved" => cmds[d].value.replyTo \notin 1..(d - 1)

\* C36: no response promise is resolved with a PROGRESS frame.
C36_ProgressNeverAResponse ==
  \A c \in 1..Len(cmds) :
    cmds[c].promise = "resolved" => cmds[c].value.code # RESP_PROGRESS

\* C37: after every step the progress callback, if one is registered,
\* belongs to an upload that has started and not settled (none is registered
\* for an upload waiting in the queue or for one that resolved or rejected),
\* and a progress report is only ever delivered to such an upload.
C37_CallbackOnlyWhileExecuting ==
  [][ /\ progressCallback' # 0 =>
           /\ ops'[progressCallback'].kind = "upload"
           /\ ops'[progressCallback'].status = "running"
      /\ Len(reports') > Len(reports) =>
           /\ ops[reports'[Len(reports')].op].kind = "upload"
           /\ ops[reports'[Len(reports')].op].status = "running" ]_vars

\* An upload has settled, the command queued behind it is running, and a
\* PROGRESS frame arrived while that command awaited its response: no
\* callback is registered then.
C37_Witness ==
  /\ Len(ops) = 2
  /\ ops[1].kind = "upload"
  /\ ops[1].status \in Settled
  /\ ops[2].status = "running"
  /\ progressCallback = 0
  /\ \E k \in 1..Len(inbound) :
        /\ inbound[k].byteLength = 4
        /\ inbound[k].resolver = ops[2].cur
        /\ ops[2].cur # 0

\* No two entries of the paired-device list share an id.
NoDuplicateIds(list) ==
  \A j, k \in 1..Len(list) : list[j].id = list[k].id => j = k

\* C38: after every call of addPairedDevice, removePairedDevice or
\* updateLastConnected the list holds at most one entry per id, and a call of
\* addPairedDevice with an id already in the list changes neither the list,
\* the rest of the store state nor the stored item and runs no listener.
C38_OneEntryPerId ==
  [][ /\ NoDuplicateIds(pairedDevices')
      /\ ( /\ now' # now
           /\ call'.method = "addPairedDevice"
           /\ \E k \in 1..Len(pairedDevices) : pairedDevices[k].id = call'.id )
         => UNCHANGED <<pairedDevices, store, storage, notified>> ]_vars

\* Two devices are paired and addPairedDevice was just called with the id of
\* one of them under another name: that entry is older than the call and
\* kept its name.
C38_Witness ==
  /\ Len(pairedDevices) = 2
  /\ call.method = "addPairedDevice"
  /\ \E k \in 1..Len(pairedDevices) :
        /\ pairedDevices[k].id = call.id
        /\ pairedDevices[k].name # call.name
        /\ pairedDevices[k].addedAt < now - 1

\* The positions of a payload at which a name starts: a byte that is no line
\* feed, at the front or right after a line feed.
NameStarts(bytes) ==
  {i \in 1..Len(bytes) :
     bytes[i] # LF /\ (i = 1 \/ bytes[i - 1] = LF)}

\* The position at which the name starting at i ends.
NameEnd(bytes, i) ==
  CHOOSE j \in i..Len(bytes) :
    /\ \A m \in i..j : bytes[m] # LF
    /\ j = Len(bytes) \/ bytes[j + 1] = LF

\* The k-th position of NameStarts, counted from the front.
NthStart(bytes, k) ==
  CHOOSE i \in NameStarts(bytes) :
    Cardinality({j \in NameStarts(bytes) : j < i}) = k - 1

\* C31: getImages returns one entry for each maximal run of bytes other than
\* line feed, in the order of the payload and decoded byte by byte: none for
\* an empty payload, none for a blank line, and no entry is empty.
C31_ImageListParsed ==
  listed =>
    /\ listPayload = <<>> => imageNames = <<>>
    /\ Len(imageNames) = Cardinality(NameStarts(listPayload))
    /\ \A k \in 1..Len(imageNames) :
         /\ imageNames[k] # <<>>
         /\ imageNames[k] =
              decode(SubSeq(listPayload, NthStart(listPayload, k),
                            NameEnd(listPayload, NthStart(listPayload, k))))

\* A payload with a blank line between two different names, and one ending
\* with a line feed, was parsed into those two names in order.
C31_Witness ==
  /\ listed
  /\ listPayload = <<97, LF, LF, 98, LF>>
  /\ imageNames = <<<<"a">>, <<"b">>>>

\* The iteration of the dithering loop has run.
Dithered == job # NoJob /\ closest # NoColor

\* The neighbours Floyd-Steinberg diffusion names, with their sixteenths.
Neighbours ==
  {[dx |-> 1, dy |-> 0, weight |-> 7], [dx |-> -1, dy |-> 1, weight |-> 3],
   [dx |-> 0, dy |-> 1, weight |-> 5], [dx |-> 1, dy |-> 1, weight |-> 1]}

\* C32: every addition an iteration makes goes to the three colour channels
\* of the right, below-left, below or below-right neighbour of the current
\* pixel, one that lies inside the raster (its column within the row, its
\* row within the raster) and that comes after the current pixel in the
\* order of the loop, and carries the error times 7, 3, 5 or 1 sixteenths.
C32_DiffusionStaysInRaster ==
  Dithered =>
    LET w == targetW(job.orientation)
        h == targetH(job.orientation)
        idx == (ditherY * w + ditherX) * 4
    IN \A a \in diffused :
         /\ a.i > idx + 3
         /\ a.i + 3 < w * h * 4
         /\ \E n \in Neighbours :
              /\ ditherX + n.dx \in 0..(w - 1)
              /\ ditherY + n.dy \in 0..(h - 1)
              /\ a.i = ((ditherY + n.dy) * w + ditherX + n.dx) * 4
              /\ a.r = err.r * n.weight
              /\ a.g = err.g * n.weight
              /\ a.b = err.b * n.weight

\* The iteration ran at the left edge above the last row with a non-zero
\* error: the right, below and below-right neighbours were added to.
C32_Witness ==
  /\ Dithered
  /\ ditherX = 0
  /\ ditherY = 0
  /\ err.r # 0
  /\ Cardinality(diffused) = 3

\* C33 as stated: a pixel quantized to Black has zero error on every channel
\* and adds nothing to its neighbours.
C33_BlackHasZeroError ==
  (Dithered /\ closest.value = COLOR_BLACK) =>
    /\ err = NoError
    /\ \A a \in diffused : a.r = 0 /\ a.g = 0 /\ a.b = 0

\* C33, amended: the error of a pixel quantized to Black is, on every
\* channel, the pixel's value clamped to 0..255, so it is zero exactly on
\* the channels whose value is 0 or less, and every neighbour added to
\* receives that error times its weight.
C33_BlackErrorIsClampedValue ==
  (Dithered /\ closest.value = COLOR_BLACK) =>
    /\ err = [r |-> Clamp(pixel.r), g |-> Clamp(pixel.g), b |-> Clamp(pixel.b)]
    /\ \A a \in diffused :
         \E n \in Neighbours :
           /\ a.r = Clamp(pixel.r) * n.weight
           /\ a.g = Clamp(pixel.g) * n.weight
           /\ a.b = Clamp(pixel.b) * n.weight

\* A dark pixel away from the edges of the raster was quantized to Black
\* and its non-zero value was added, in sixteenths, to four neighbours.
C33_Witness ==
  /\ Dithered
  /\ closest.value = COLOR_BLACK
  /\ pixel.r = 10 * Scale
  /\ err.r = 10 * Scale
  /\ Cardinality(diffused) = 4
  /\ \E a \in diffused : a.r = 7 * 10 * Scale

====
